---- MODULE Spec2Model ----
(***************************************************************************)
(* GoodRAW (AlexSegal/utils, goodraw/): the GLImageWidget viewport state   *)
(* machine (zoom / pan / rotation / aspect fit / texture ownership) and    *)
(* the 3x3 colour matrix helpers of colortransform.h.                      *)
(*                                                                         *)
(* Numbers.  The C++ code computes in IEEE single precision.  The model    *)
(* computes in exact rational arithmetic extended with the IEEE special    *)
(* values, so that x/0, 0*inf and inf-inf behave as they do in the build:  *)
(*     <<n, d>>  with d > 0, gcd(n,d) = 1     the rational n/d             *)
(*     <<1, 0>>, <<-1, 0>>                    +infinity, -infinity         *)
(*     <<0, 0>>                               NaN                          *)
(* Rounding error and the sign of zero are not modelled.                   *)
(***************************************************************************)
EXTENDS Integers, Sequences, FiniteSets, TLC

\* ------------------------------------------------------------------------
\* Bounds of the model
\* ------------------------------------------------------------------------
\* number of UI events of one run
MaxEvents == 3

\* ------------------------------------------------------------------------
\* float arithmetic
\* ------------------------------------------------------------------------
Abs(i) == IF i < 0 THEN -i ELSE i

Sgn(i) == IF i < 0 THEN -1 ELSE IF i = 0 THEN 0 ELSE 1

RECURSIVE GCD(_, _)
GCD(a, b) == IF b = 0 THEN a ELSE GCD(b, a % b)

NaN == <<0, 0>>

Inf(s) == <<s, 0>>

Zero == <<0, 1>>

One == <<1, 1>>

IsNaN(a) == a[2] = 0 /\ a[1] = 0

IsInf(a) == a[2] = 0 /\ a[1] # 0

IsFinite(a) == a[2] > 0

\* the float n/d for integers n and d # 0
Rat(n, d) ==
    LET g == GCD(Abs(n), Abs(d))
    IN  IF n = 0 THEN Zero
        ELSE <<Sgn(n) * Sgn(d) * (Abs(n) \div g), Abs(d) \div g>>

\* int -> float (static_cast<float>, implicit conversions)
F(i) == <<i, 1>>

RNeg(a) == <<-a[1], a[2]>>

RAbs(a) == <<Abs(a[1]), a[2]>>

RAdd(a, b) ==
    IF a[2] > 0 /\ b[2] > 0
    THEN IF a[1] = 0 THEN b
         ELSE IF b[1] = 0 THEN a
         ELSE IF a[2] = b[2] THEN Rat(a[1] + b[1], a[2])
         ELSE LET g == GCD(a[2], b[2])
              IN  Rat(a[1] * (b[2] \div g) + b[1] * (a[2] \div g), (a[2] \div g) * b[2])
    ELSE IF IsNaN(a) \/ IsNaN(b) THEN NaN
    ELSE IF IsInf(a) /\ IsInf(b) THEN (IF a[1] = b[1] THEN a ELSE NaN)
    ELSE IF IsInf(a) THEN a
    ELSE b

RSub(a, b) == RAdd(a, RNeg(b))

RMul(a, b) ==
    IF a[2] > 0 /\ b[2] > 0
    THEN IF a[1] = 0 \/ b[1] = 0 THEN Zero
         ELSE IF a = One THEN b
         ELSE IF b = One THEN a
         ELSE LET g1 == GCD(Abs(a[1]), b[2])
                  g2 == GCD(Abs(b[1]), a[2])
              IN  <<(a[1] \div g1) * (b[1] \div g2), (a[2] \div g2) * (b[2] \div g1)>>
    ELSE IF IsNaN(a) \/ IsNaN(b) THEN NaN
    ELSE IF a[1] = 0 \/ b[1] = 0 THEN NaN
    ELSE Inf(Sgn(a[1]) * Sgn(b[1]))

RDiv(a, b) ==
    IF IsNaN(a) \/ IsNaN(b) THEN NaN
    ELSE IF IsInf(b) THEN (IF IsInf(a) THEN NaN ELSE Zero)
    ELSE IF b[1] = 0 THEN (IF a[1] = 0 THEN NaN ELSE Inf(Sgn(a[1])))
    ELSE RMul(a, <<Sgn(b[1]) * b[2], Abs(b[1])>>)

\* a < b, false when either is NaN
RLt(a, b) ==
    IF IsNaN(a) \/ IsNaN(b) THEN FALSE
    ELSE IF IsInf(a) THEN a[1] < 0 /\ b # a
    ELSE IF IsInf(b) THEN b[1] > 0
    ELSE IF a = b THEN FALSE
    ELSE a[1] * b[2] < b[1] * a[2]

RGt(a, b) == RLt(b, a)

RGe(a, b) == (~IsNaN(a)) /\ (~IsNaN(b)) /\ ~RLt(a, b)

\* a != b as the floating comparison evaluates it (NaN differs from everything)
RNe(a, b) == IsNaN(a) \/ IsNaN(b) \/ a # b

\* pow(1.1f, n) for a whole number of notches n
RECURSIVE IPow(_, _)
IPow(b, e) == IF e = 0 THEN 1 ELSE b * IPow(b, e - 1)

Pow11(n) == IF n >= 0 THEN <<IPow(11, n), IPow(10, n)>>
            ELSE <<IPow(10, -n), IPow(11, -n)>>

\* ------------------------------------------------------------------------
\* Imath::M33f / Imath::V3f as the widget uses them (row vectors: v * M)
\* ------------------------------------------------------------------------
Idx3 == {1, 2, 3}

\* Imath::M33f() / makeIdentity()
Identity33 == << <<One, Zero, Zero>>, <<Zero, One, Zero>>, <<Zero, Zero, One>> >>

\* Imath::M33f::operator*: tmp[i][j] starts at 0 and adds x[i][k] * v[k][j]
Dot(A, B, i, j) ==
    RAdd(RAdd(RAdd(Zero, RMul(A[i][1], B[1][j])), RMul(A[i][2], B[2][j])),
         RMul(A[i][3], B[3][j]))

MatMul(A, B) ==
    << << Dot(A, B, 1, 1), Dot(A, B, 1, 2), Dot(A, B, 1, 3) >>,
       << Dot(A, B, 2, 1), Dot(A, B, 2, 2), Dot(A, B, 2, 3) >>,
       << Dot(A, B, 3, 1), Dot(A, B, 3, 2), Dot(A, B, 3, 3) >> >>

\* Imath::V3f * Imath::M33f
VecDot(v, M, j) ==
    RAdd(RAdd(RMul(v[1], M[1][j]), RMul(v[2], M[2][j])), RMul(v[3], M[3][j]))

VecMat(v, M) == << VecDot(v, M, 1), VecDot(v, M, 2), VecDot(v, M, 3) >>

\* Imath::M33f().setTranslation(V2f(tx, ty))
SetTranslation(tx, ty) == << <<One, Zero, Zero>>, <<Zero, One, Zero>>, <<tx, ty, One>> >>

\* Imath::M33f().setScale(V2f(sx, sy))
SetScale(sx, sy) == << <<sx, Zero, Zero>>, <<Zero, sy, Zero>>, <<Zero, Zero, One>> >>

\* One mouse drag of the model turns the image by RotUnit radians (93 pixels
\* at 0.01 rad per pixel).  cos and sin of k * RotUnit are taken at the
\* rational point of the unit circle next to the angle: (3/5, 4/5) for 0.93
\* rad (cosf gives 0.5978, sinf 0.8016), and its k-th power for k * 0.93.
RotUnit == Rat(93, 100)

RECURSIVE CosSin(_)
CosSin(k) ==
    IF k = 0 THEN <<One, Zero>>
    ELSE IF k < 0 THEN LET p == CosSin(-k) IN <<p[1], RNeg(p[2])>>
    ELSE LET p == CosSin(k - 1)
         IN  <<RSub(RMul(p[1], Rat(3, 5)), RMul(p[2], Rat(4, 5))),
               RAdd(RMul(p[2], Rat(3, 5)), RMul(p[1], Rat(4, 5)))>>

\* Imath::M33f().setRotation(r)
SetRotation(r) ==
    LET k  == RDiv(r, RotUnit)
        cs == CosSin(k[1])
    IN  << <<cs[1], cs[2], Zero>>, <<RNeg(cs[2]), cs[1], Zero>>, <<Zero, Zero, One>> >>

\* Imath::M33f::inverse().  r is the determinant and s the adjugate.  When
\* abs(r) >= 1 every entry is divided by r; otherwise an entry is divided
\* only if abs(r)/FLT_MIN > abs(entry), and the first entry that fails the
\* test makes the result the identity (singExc = false).  With FLT_MIN taken
\* as infinitesimal the test fails when r is zero or NaN or the entry is not
\* finite.
Divisible(r, e) == (~IsNaN(r)) /\ r # Zero /\ IsFinite(e)

Inverse33(x) ==
    IF RNe(x[1][3], Zero) \/ RNe(x[2][3], Zero) \/ RNe(x[3][3], One)
    THEN LET s == << << RSub(RMul(x[2][2], x[3][3]), RMul(x[3][2], x[2][3])),
                        RSub(RMul(x[3][2], x[1][3]), RMul(x[1][2], x[3][3])),
                        RSub(RMul(x[1][2], x[2][3]), RMul(x[2][2], x[1][3])) >>,
                     << RSub(RMul(x[3][1], x[2][3]), RMul(x[2][1], x[3][3])),
                        RSub(RMul(x[1][1], x[3][3]), RMul(x[3][1], x[1][3])),
                        RSub(RMul(x[2][1], x[1][3]), RMul(x[1][1], x[2][3])) >>,
                     << RSub(RMul(x[2][1], x[3][2]), RMul(x[3][1], x[2][2])),
                        RSub(RMul(x[3][1], x[1][2]), RMul(x[1][1], x[3][2])),
                        RSub(RMul(x[1][1], x[2][2]), RMul(x[2][1], x[1][2])) >> >>
             r == RAdd(RAdd(RMul(x[1][1], s[1][1]), RMul(x[1][2], s[2][1])),
                       RMul(x[1][3], s[3][1]))
         IN  IF RGe(RAbs(r), One) \/ \A i \in Idx3 : \A j \in Idx3 : Divisible(r, s[i][j])
             THEN << << RDiv(s[1][1], r), RDiv(s[1][2], r), RDiv(s[1][3], r) >>,
                     << RDiv(s[2][1], r), RDiv(s[2][2], r), RDiv(s[2][3], r) >>,
                     << RDiv(s[3][1], r), RDiv(s[3][2], r), RDiv(s[3][3], r) >> >>
             ELSE Identity33
    ELSE LET r   == RSub(RMul(x[1][1], x[2][2]), RMul(x[2][1], x[1][2]))
             a11 == x[2][2]
             a12 == RNeg(x[1][2])
             a21 == RNeg(x[2][1])
             a22 == x[1][1]
             s11 == RDiv(a11, r)
             s12 == RDiv(a12, r)
             s21 == RDiv(a21, r)
             s22 == RDiv(a22, r)
             s31 == RSub(RMul(RNeg(x[3][1]), s11), RMul(x[3][2], s21))
             s32 == RSub(RMul(RNeg(x[3][1]), s12), RMul(x[3][2], s22))
         IN  IF RGe(RAbs(r), One) \/ \A e \in {a11, a12, a21, a22} : Divisible(r, e)
             THEN << <<s11, s12, Zero>>, <<s21, s22, Zero>>, <<s31, s32, One>> >>
             ELSE Identity33

\* ------------------------------------------------------------------------
\* Inputs of the model
\* ------------------------------------------------------------------------
\* widget sizes <<width(), height()>> the window system gives the GL widget
Viewports == { <<800, 800>>, <<1600, 800>> }

\* sizes <<width, height>> of the decoded images handed to setImage
Images == { <<4000, 3000>>, <<3000, 4000>> }

\* mouse positions (pixels) of press, move and wheel events
Points == { <<0, 0>>, <<93, 100>> }

Buttons == { "Left", "Right" }

\* QWheelEvent::angleDelta().y(): 120 per notch
AngleDeltas == { -120, 120 }

\* arguments of setZoom
ZoomArgs == { Zero, F(2) }

Keys == { "F", "Other" }

\* ------------------------------------------------------------------------
\* GLImageWidget
\* ------------------------------------------------------------------------
VARIABLES
    zoom,           \* float zoom
    crop,           \* CropTransform crop: centerX, centerY, rotation
    aspectScale,    \* QVector2D aspectScale
    width,          \* QWidget::width()
    height,         \* QWidget::height()
    imgData,        \* HalfImage imgData: width, height
    m_tex,          \* QOpenGLTexture* _m_tex: 0 is nullptr, else the texture's id
    lastMousePos,   \* QPoint lastMousePos
    rotating,       \* bool rotating
    showGrid,       \* bool showGrid
    texCreated,     \* number of QOpenGLTexture objects created so far (ids 1..texCreated)
    texLive,        \* ids of the textures created and not yet deleted
    texDeletes,     \* id -> number of times the texture was deleted
    texPeak,        \* largest number of textures that were alive at one time
    frame,          \* what the last paintGL did: cleared only, or drew a texture
    lastEv,         \* the event handled last and its arguments
    pre,            \* zoom, crop and aspectScale before the event handled last
    rt,             \* observer of wheel round trips (+n then -n at one cursor)
    nEvents,        \* number of events handled
    xyz,            \* a pixel as LibRaw delivers it (XYZ), r, g, b
    ap0,            \* the pixel after applyMatrix3x3(XYZ_to_AP0, r, g, b)
    ap1,            \* the pixel after applyMatrix3x3(AP0_to_AP1, r, g, b) on top of it
    chained,        \* the two applyMatrix3x3 calls were made on the pixel
    acescg,         \* the pixel as xyzToACEScg stores it
    converted,      \* xyzToACEScg was run on the pixel
    XYZ_to_ACEScg,  \* xyzToACEScg's static float XYZ_to_ACEScg[3][3]
    matrix_computed,\* xyzToACEScg's static bool matrix_computed
    exposure,       \* float exposure, in stops
    wb,             \* QVector3D wb
    contrast,       \* float contrast
    texel,          \* the image pixel a fragment samples, or acesCgToDisplay reads
    inside,         \* the fragment's TexCoord lies in [0,1] x [0,1]
    onGridLine,     \* the fragment's TexCoord lies on a line of the 3x3 grid
    fragDone,       \* the fragment shader ran on the fragment
    fragStages,     \* the value after each statement of the shader's main
    fragColor,      \* FragColor.rgb
    cpuDone,        \* acesCgToDisplay ran on the pixel
    cpuStages,      \* the value after each statement of acesCgToDisplay's loop body
    srgbIn,         \* a display-linear value handed to linearToSRGB
    srgbCpu,        \* what the C++ linearToSRGB returns for it
    srgbGlsl,       \* what the GLSL linearToSRGB returns for it
    exposureSlider, \* PrecisionSlider exposureSlider: its value, in stops
    kelvinSlider,   \* PrecisionSlider kelvinSlider: its value, the temperature shift
    contrastSlider, \* PrecisionSlider contrastSlider: its value
    camMul,         \* MainWindow::camMulR, camMulG, camMulB
    cam_mul,        \* libraw_colordata_t::cam_mul of the file loaded last
    lastOpenedDirectory, \* MainWindow::lastOpenedDirectory
    loadEntry,      \* how the last load was started: "open", "drop", "argv"
    loadOutcome,    \* how it ended: "ok" or the step that threw
    messageShown,   \* QMessageBox::critical was shown for it
    escaped,        \* its exception left the event handler or main
    memimg,         \* the libraw_processed_image_t handed to convertLibRaw16ToHalf
    halfImage,      \* the HalfImage it returned: width, height, data
    convertThrew,   \* the what() of the exception it threw, "" if it returned
    engineOp,       \* the colour operation run on halfImage last, "" if none
    engineOutcome,  \* how that operation ended
    m_minimum,      \* PrecisionSlider::m_minimum
    m_maximum,      \* PrecisionSlider::m_maximum
    m_defaultValue, \* PrecisionSlider::m_defaultValue
    m_currentValue, \* PrecisionSlider::m_currentValue
    m_dragging,     \* PrecisionSlider::m_dragging
    m_ctrlPressed,  \* PrecisionSlider::m_ctrlPressed
    m_lastMousePos, \* PrecisionSlider::m_lastMousePos, its x
    m_dragStartValue, \* PrecisionSlider::m_dragStartValue
    m_slider,       \* the value of the QSlider m_slider, 0 .. SLIDER_PRECISION
    m_lineEdit,     \* the text of the QLineEdit m_lineEdit, as toFloat reads it
    emitted,        \* number of valueChanged signals emitted
    signalled,      \* the argument of the last valueChanged
    sliderOp,       \* the member function of the slider that ran last
    sliderPre,      \* text, value and signal count before it ran
    nSlider,        \* number of calls and events the slider handled
    panX,           \* float panX
    panY,           \* float panY
    roundTrip,      \* a converted pixel taken back to XYZ by acesCgToDisplay's matrices
    loopOp,         \* the colour operation whose row loop runs
    loopPc,         \* where its caller is: "entry", "matrix", "parallel", "joined"
    orig,           \* row -> the pixel of the row when the operation was called
    buf,            \* row -> the pixel of the row in img.data
    unclaimed,      \* rows no thread has started
    workers,        \* thread -> its row, its position in the body, its r, g, b
    stores          \* row -> number of stores into its pixel

widgetVars == << zoom, crop, aspectScale, width, height, imgData, m_tex, lastMousePos,
                 rotating, showGrid, texCreated, texLive, texDeletes, texPeak, frame,
                 lastEv, pre, rt, nEvents >>

colorVars == << xyz, ap0, ap1, chained, acescg, converted, XYZ_to_ACEScg,
                matrix_computed >>

adjustVars == << exposure, wb, contrast >>

displayVars == << texel, inside, onGridLine, fragDone, fragStages, fragColor,
                  cpuDone, cpuStages, srgbIn, srgbCpu, srgbGlsl >>

appVars == << exposureSlider, kelvinSlider, contrastSlider, camMul, cam_mul,
             lastOpenedDirectory, loadEntry, loadOutcome, messageShown, escaped >>

convertVars == << memimg, halfImage, convertThrew, engineOp, engineOutcome >>

sliderVars == << m_minimum, m_maximum, m_defaultValue, m_currentValue, m_dragging,
                m_ctrlPressed, m_lastMousePos, m_dragStartValue, m_slider, m_lineEdit,
                emitted, signalled, sliderOp, sliderPre, nSlider >>

panVars == << panX, panY >>

inverseVars == << roundTrip >>

loopVars == << loopOp, loopPc, orig, buf, unclaimed, workers, stores >>

componentVars == << convertVars, sliderVars, panVars, inverseVars, loopVars >>

vars == << widgetVars, colorVars, adjustVars, displayVars, appVars, componentVars >>

\* statics with no initializer are zero-initialized
ZeroMatrix == << <<0, 0, 0>>, <<0, 0, 0>>, <<0, 0, 0>> >>

\* no pixel converted yet, xyzToACEScg never called
ColorIdle ==
    /\ xyz = <<0, 0, 0>>
    /\ ap0 = <<0, 0, 0>>
    /\ ap1 = <<0, 0, 0>>
    /\ chained = FALSE
    /\ acescg = <<0, 0, 0>>
    /\ converted = FALSE
    /\ XYZ_to_ACEScg = ZeroMatrix
    /\ matrix_computed = FALSE

Ev(op, x, y, n, b) == [op |-> op, x |-> x, y |-> y, n |-> n, b |-> b]

Snapshot == [zoom |-> zoom, crop |-> crop, aspectScale |-> aspectScale]

NoRt == [phase |-> 0, x |-> 0, y |-> 0, n |-> 0, zoom |-> Zero,
         crop |-> [centerX |-> Zero, centerY |-> Zero, rotation |-> Zero]]

NoFrame == [painted |-> FALSE, drew |-> FALSE, tex |-> 0, texWasLive |-> FALSE]

\* the members' default initializers (glimagewidget.h); the widget has the size
\* the layout gave it, no image and no texture
WidgetInitSized(sizes) ==
    /\ zoom = One
    /\ crop = [centerX |-> Zero, centerY |-> Zero, rotation |-> Zero]
    /\ aspectScale = <<One, One>>
    /\ \E v \in sizes : width = v[1] /\ height = v[2]
    /\ imgData = [width |-> 0, height |-> 0]
    /\ m_tex = 0
    /\ lastMousePos = <<0, 0>>
    /\ rotating = FALSE
    /\ showGrid = FALSE
    /\ texCreated = 0
    /\ texLive = {}
    /\ texDeletes = << >>
    /\ texPeak = 0
    /\ frame = NoFrame
    /\ lastEv = Ev("init", 0, 0, 0, FALSE)
    /\ pre = [zoom |-> One,
              crop |-> [centerX |-> Zero, centerY |-> Zero, rotation |-> Zero],
              aspectScale |-> <<One, One>>]
    /\ rt = NoRt
    /\ nEvents = 0

WidgetInit == WidgetInitSized(Viewports)

\* the adjustment members' default initializers (glimagewidget.h)
AdjustInit ==
    /\ exposure = 0
    /\ wb = <<One, One, One>>
    /\ contrast = One

\* a value of the display pipeline: the numbers computed so far and, on top,
\* the names of the display functions applied to them
Val(v) == [base |-> v, applied |-> << >>]

\* nothing drawn or converted yet
DisplayIdle ==
    /\ texel = <<Zero, Zero, Zero>>
    /\ inside = FALSE
    /\ onGridLine = FALSE
    /\ fragDone = FALSE
    /\ fragStages = << >>
    /\ fragColor = Val(<<Zero, Zero, Zero>>)
    /\ cpuDone = FALSE
    /\ cpuStages = << >>
    /\ srgbIn = Zero
    /\ srgbCpu = Zero
    /\ srgbGlsl = Zero

\* the main window as constructed: sliders at their defaults, no file loaded
AppIdle ==
    /\ exposureSlider = 0
    /\ kelvinSlider = 0
    /\ contrastSlider = One
    /\ camMul = <<One, One, One>>
    /\ cam_mul = <<1, 1, 1>>
    /\ lastOpenedDirectory = ""
    /\ loadEntry = "none"
    /\ loadOutcome = "none"
    /\ messageShown = FALSE
    /\ escaped = FALSE

\* no decoder image converted yet
NoImage == [width |-> 0, height |-> 0, data |-> << >>, space |-> ""]

NoMemimg == [null |-> TRUE, dataNull |-> TRUE, type |-> "", bits |-> 0, colors |-> 0,
             width |-> 0, height |-> 0]

ConvertIdle ==
    /\ memimg = NoMemimg
    /\ halfImage = NoImage
    /\ convertThrew = ""
    /\ engineOp = ""
    /\ engineOutcome = ""

\* float values of the slider are counted in steps of 5e-7: 2000000 steps are 1.0
U(n, d) == (n * 2000000) \div d

\* QString::number(value, 'f', 2) as toFloat reads it back: two decimals
Number(value) == [ok |-> TRUE, value |-> ((value + 10000) \div 20000) * 20000]

\* the PrecisionSlider as its constructor leaves it
SliderIdle ==
    /\ m_minimum = U(-10, 1)
    /\ m_maximum = U(10, 1)
    /\ m_defaultValue = 0
    /\ m_currentValue = 0
    /\ m_dragging = FALSE
    /\ m_ctrlPressed = FALSE
    /\ m_lastMousePos = 0
    /\ m_dragStartValue = 0
    /\ m_slider = 5000
    /\ m_lineEdit = Number(0)
    /\ emitted = 0
    /\ signalled = 0
    /\ sliderOp = ""
    /\ sliderPre = [text |-> Number(0), value |-> 0, emitted |-> 0]
    /\ nSlider = 0

\* float panX = 0.0f, panY = 0.0f
PanIdle == panX = Zero /\ panY = Zero

\* no pixel taken back yet
InverseIdle ==
    roundTrip = [done |-> FALSE, from |-> <<0, 0, 0>>, ap0 |-> <<0, 0, 0>>,
                 xyz |-> <<0, 0, 0>>]

\* no row loop running
LoopIdle ==
    /\ loopOp = ""
    /\ loopPc = "joined"
    /\ orig = << >>
    /\ buf = << >>
    /\ unclaimed = {}
    /\ workers = << >>
    /\ stores = << >>

ComponentIdle == ConvertIdle /\ SliderIdle /\ PanIdle /\ InverseIdle /\ LoopIdle

Init == WidgetInit /\ ColorIdle /\ AdjustInit /\ DisplayIdle /\ AppIdle /\ ComponentIdle

\* updateAspectScale without the static_cast<float>: integer divisions
UpdateAspectScale_IntDiv(tex, img, w, h) ==
    IF tex = 0 \/ img.width = 0 \/ img.height = 0
    THEN <<One, One>>
    ELSE LET widgetAspect == F(w \div h)
             imageAspect  == F(img.width \div img.height)
         IN  IF RGt(imageAspect, widgetAspect)
             THEN <<One, RDiv(widgetAspect, imageAspect)>>
             ELSE <<RDiv(imageAspect, widgetAspect), One>>

\* updateAspectScale with the two branches exchanged
UpdateAspectScale_Swapped(tex, img, w, h) ==
    IF tex = 0 \/ img.width = 0 \/ img.height = 0
    THEN <<One, One>>
    ELSE LET widgetAspect == RDiv(F(w), F(h))
             imageAspect  == RDiv(F(img.width), F(img.height))
         IN  IF RGt(imageAspect, widgetAspect)
             THEN <<RDiv(imageAspect, widgetAspect), One>>
             ELSE <<One, RDiv(widgetAspect, imageAspect)>>

\* GLImageWidget::updateAspectScale, as a function of the members it reads
UpdateAspectScale(tex, img, w, h) ==
    IF tex = 0 \/ img.width = 0 \/ img.height = 0
    THEN <<One, One>>
    ELSE LET widgetAspect == RDiv(F(w), F(h))
             imageAspect  == RDiv(F(img.width), F(img.height))
         IN  IF RGt(imageAspect, widgetAspect)
             THEN <<One, RDiv(widgetAspect, imageAspect)>>
             ELSE <<RDiv(imageAspect, widgetAspect), One>>

\* fitToViewport before "Changed from 2.0f to 1.0f"
FitZoom_Two == F(2)

\* GLImageWidget::fitToViewport: the values it assigns
FitZoom == One

FitCrop == [centerX |-> Zero, centerY |-> Zero, rotation |-> Zero]

\* the transform paintGL builds and wheelEvent rebuilds ("same as in paintGL"):
\* centre the quad, aspect scale, zoom * 2, rotation if not zero, then pan
\* when withPan (partialTransform leaves the pan out)
ComposedTransform(z, c, as, withPan) ==
    LET t1 == MatMul(Identity33, SetTranslation(Rat(-1, 2), Rat(-1, 2)))
        t2 == MatMul(t1, SetScale(as[1], as[2]))
        totalZoom == RMul(z, F(2))
        t3 == MatMul(t2, SetScale(totalZoom, totalZoom))
        t4 == IF RNe(c.rotation, Zero) THEN MatMul(t3, SetRotation(c.rotation)) ELSE t3
    IN  IF withPan THEN MatMul(t4, SetTranslation(c.centerX, c.centerY)) ELSE t4

\* the cursor in clip space, wheelEvent's clipPoint
ClipPoint(x, y, w, h) ==
    << RSub(RDiv(RMul(F(2), F(x)), F(w)), One),
       RSub(One, RDiv(RMul(F(2), F(y)), F(h))),
       One >>

\* wheelEvent's imagePoint = clipPoint * transform.inverse()
ImagePoint(z, c, as, clipPoint) ==
    VecMat(clipPoint, Inverse33(ComposedTransform(z, c, as, TRUE)))

\* bookkeeping common to every event
Logged(ev) ==
    /\ nEvents < MaxEvents
    /\ nEvents' = nEvents + 1
    /\ lastEv' = ev
    /\ pre' = Snapshot

\* an event of the widget: nothing of the main window or the pixels changes
Handled(ev) ==
    /\ Logged(ev)
    /\ UNCHANGED << colorVars, adjustVars, displayVars, appVars, componentVars >>

\* setImage without the delete: the old texture stays alive
ReleaseOld_Leak(tex, live) == live

\* setImage: "if(_m_tex) delete _m_tex;" takes the old texture out of the
\* live ones before the new one is created
ReleaseOld(tex, live) == IF tex # 0 THEN live \ {tex} ELSE live

\* setImage without the call of fitToViewport: the view stays as it was
LoadView_Kept(z, c) == [zoom |-> z, crop |-> c]

\* setImage: the view it leaves, by its call of fitToViewport
LoadView(z, c) == [zoom |-> FitZoom, crop |-> FitCrop]

\* GLImageWidget::setImage: what it assigns for an image of size img
SetImageTo(img) ==
        LET released == ReleaseOld(m_tex, texLive)
            created  == texCreated + 1
            view     == LoadView(zoom, crop)
        IN  /\ imgData' = [width |-> img[1], height |-> img[2]]
            /\ texDeletes' = [i \in 1..created |->
                                IF i = created THEN 0
                                ELSE IF i = m_tex THEN texDeletes[i] + 1
                                ELSE texDeletes[i]]
            /\ texCreated' = created
            /\ m_tex' = created
            /\ texLive' = released \cup {created}
            /\ texPeak' = IF Cardinality(texLive') > texPeak
                          THEN Cardinality(texLive') ELSE texPeak
            /\ aspectScale' = UpdateAspectScale(m_tex', imgData', width, height)
            /\ zoom' = view.zoom
            /\ crop' = view.crop
            /\ rt' = NoRt
            /\ UNCHANGED << width, height, lastMousePos, rotating, showGrid, frame >>

\* GLImageWidget::setImage
SetImage ==
    \E img \in Images :
        /\ Handled(Ev("setImage", img[1], img[2], 0, FALSE))
        /\ SetImageTo(img)

\* GLImageWidget::resizeGL
ResizeGL ==
    \E v \in Viewports :
        /\ Handled(Ev("resizeGL", v[1], v[2], 0, FALSE))
        /\ width' = v[1]
        /\ height' = v[2]
        /\ aspectScale' = UpdateAspectScale(m_tex, imgData, v[1], v[2])
        /\ rt' = NoRt
        /\ UNCHANGED << zoom, crop, imgData, m_tex, lastMousePos, rotating, showGrid,
                        texCreated, texLive, texDeletes, texPeak, frame >>

\* GLImageWidget::setZoom
SetZoom ==
    \E z \in ZoomArgs :
        /\ Handled(Ev("setZoom", z[1], z[2], 0, FALSE))
        /\ zoom' = z
        /\ rt' = NoRt
        /\ UNCHANGED << crop, aspectScale, width, height, imgData, m_tex, lastMousePos,
                        rotating, showGrid, texCreated, texLive, texDeletes, texPeak, frame >>

\* GLImageWidget::keyPressEvent
KeyPressEvent ==
    \E key \in Keys :
        /\ Handled(Ev("keyPressEvent", 0, 0, 0, key = "F"))
        /\ zoom' = IF key = "F" THEN FitZoom ELSE zoom
        /\ crop' = IF key = "F" THEN FitCrop ELSE crop
        /\ rt' = NoRt
        /\ UNCHANGED << aspectScale, width, height, imgData, m_tex, lastMousePos,
                        rotating, showGrid, texCreated, texLive, texDeletes, texPeak, frame >>

\* a press that switches the grid on with the right button and never off
MousePressEvent_GridStays ==
    \E button \in Buttons : \E pos \in Points :
        /\ Handled(Ev("mousePressEvent", pos[1], pos[2], 0, button = "Right"))
        /\ lastMousePos' = pos
        /\ rotating' = (button = "Right")
        /\ showGrid' = (showGrid \/ rotating')
        /\ rt' = NoRt
        /\ UNCHANGED << zoom, crop, aspectScale, width, height, imgData, m_tex,
                        texCreated, texLive, texDeletes, texPeak, frame >>

\* GLImageWidget::mousePressEvent
MousePressEvent ==
    \E button \in Buttons : \E pos \in Points :
        /\ Handled(Ev("mousePressEvent", pos[1], pos[2], 0, button = "Right"))
        /\ lastMousePos' = pos
        /\ rotating' = (button = "Right")
        /\ showGrid' = rotating'
        /\ rt' = NoRt
        /\ UNCHANGED << zoom, crop, aspectScale, width, height, imgData, m_tex,
                        texCreated, texLive, texDeletes, texPeak, frame >>

\* a pan that moves the image down when the cursor moves down the screen:
\* centerY += delta.y()/height()/zoom
DragPan_SameSign(c, dx, dy, w, h, z) ==
    [c EXCEPT !.centerX = RAdd(@, RDiv(RDiv(F(dx), F(w)), z)),
              !.centerY = RAdd(@, RDiv(RDiv(F(dy), F(h)), z))]

\* mouseMoveEvent with the left button held: crop.centerX += delta.x()/width()/zoom,
\* crop.centerY -= delta.y()/height()/zoom
DragPan(c, dx, dy, w, h, z) ==
    [c EXCEPT !.centerX = RAdd(@, RDiv(RDiv(F(dx), F(w)), z)),
              !.centerY = RSub(@, RDiv(RDiv(F(dy), F(h)), z))]

\* mouseMoveEvent while rotating: crop.rotation += delta.x()*0.01f
DragRotate(c, dx) == [c EXCEPT !.rotation = RAdd(@, RMul(F(dx), Rat(1, 100)))]

\* GLImageWidget::mouseMoveEvent; left is event->buttons() & Qt::LeftButton
MouseMoveEvent ==
    \E pos \in Points : \E left \in BOOLEAN :
        LET dx == pos[1] - lastMousePos[1]
            dy == pos[2] - lastMousePos[2]
        IN  /\ Handled(Ev("mouseMoveEvent", dx, dy, 0, left))
            /\ crop' =
                 IF rotating THEN DragRotate(crop, dx)
                 ELSE IF left THEN DragPan(crop, dx, dy, width, height, zoom)
                 ELSE crop
            /\ lastMousePos' = pos
            /\ rt' = NoRt
            /\ UNCHANGED << zoom, aspectScale, width, height, imgData, m_tex, rotating,
                            showGrid, texCreated, texLive, texDeletes, texPeak, frame >>

\* GLImageWidget::wheelEvent: the zoom and the pan it assigns
WheelZoom(z, angleDelta) ==
    LET delta == RDiv(F(angleDelta), F(120))
    IN  RMul(z, Pow11(delta[1]))

\* wheelEvent that only changes the zoom: the pan stays as it was
WheelPan_Kept(z, c, as, clipPoint, newZoom) == << c.centerX, c.centerY >>

\* wheelEvent: requiredTranslation, from imagePoint (the cursor taken back
\* through the old transform) and partialTransform (the new one without pan);
\* each intermediate value is computed once and bound
WheelPan(z, c, as, clipPoint, newZoom) ==
    CHOOSE requiredTranslation \in
        { << RSub(clipPoint[1], transformedPoint[1]),
             RSub(clipPoint[2], transformedPoint[2]) >> :
          transformedPoint \in
            { VecMat(imagePoint, partialTransform) :
                imagePoint \in { ImagePoint(z, c, as, clipPoint) },
                partialTransform \in { ComposedTransform(newZoom, c, as, FALSE) } } } :
        TRUE

WheelEvent ==
    \E mousePos \in Points : \E angleDelta \in AngleDeltas :
        LET clipPoint == ClipPoint(mousePos[1], mousePos[2], width, height)
            newZoom   == WheelZoom(zoom, angleDelta)
            newPan    == WheelPan(zoom, crop, aspectScale, clipPoint, newZoom)
            n         == angleDelta \div 120
        IN  /\ Handled(Ev("wheelEvent", mousePos[1], mousePos[2], n, FALSE))
            /\ zoom' = newZoom
            /\ crop' = [crop EXCEPT !.centerX = newPan[1], !.centerY = newPan[2]]
            /\ rt' = IF rt.phase = 1 /\ rt.x = mousePos[1] /\ rt.y = mousePos[2]
                        /\ rt.n = -n
                     THEN [rt EXCEPT !.phase = 2]
                     ELSE [phase |-> 1, x |-> mousePos[1], y |-> mousePos[2], n |-> n,
                           zoom |-> zoom, crop |-> crop]
            /\ UNCHANGED << aspectScale, width, height, imgData, m_tex, lastMousePos,
                            rotating, showGrid, texCreated, texLive, texDeletes, texPeak, frame >>

\* paintGL without "if (!_m_tex) return": binds and draws whatever _m_tex is
PaintFrame_NoReturn == [painted |-> TRUE, drew |-> TRUE, tex |-> m_tex,
                        texWasLive |-> m_tex \in texLive]

\* GLImageWidget::paintGL: clears, and with a texture binds it and draws
PaintFrame == [painted |-> TRUE, drew |-> m_tex # 0, tex |-> m_tex,
               texWasLive |-> m_tex \in texLive]

PaintGL ==
    /\ Handled(Ev("paintGL", 0, 0, 0, m_tex # 0))
    /\ frame' = PaintFrame
    /\ rt' = NoRt
    /\ UNCHANGED << zoom, crop, aspectScale, width, height, imgData, m_tex, lastMousePos,
                    rotating, showGrid, texCreated, texLive, texDeletes, texPeak >>

\* GLImageWidget::exportImage: false without a texture, else paintGL into a
\* framebuffer object and the result of QImage::save
ExportImage ==
    \E saved \in BOOLEAN :
        /\ Handled(Ev("exportImage", 0, 0, 0, m_tex # 0 /\ saved))
        /\ frame' = IF m_tex = 0 THEN frame ELSE PaintFrame
        /\ rt' = NoRt
        /\ UNCHANGED << zoom, crop, aspectScale, width, height, imgData, m_tex,
                        lastMousePos, rotating, showGrid, texCreated, texLive,
                        texDeletes, texPeak >>

Next ==
    \/ SetImage
    \/ ResizeGL
    \/ SetZoom
    \/ KeyPressEvent
    \/ MousePressEvent
    \/ MouseMoveEvent
    \/ WheelEvent
    \/ PaintGL
    \/ ExportImage

Spec == Init /\ [][Next]_vars

\* ------------------------------------------------------------------------
\* Properties of the viewport (checked under Spec)
\* ------------------------------------------------------------------------
\* |a - b| < 1/10000, the tolerance of the viewport tests
Near(a, b) == RLt(RAbs(RSub(a, b)), Rat(1, 10000))

NearVec(u, v) == Near(u[1], v[1]) /\ Near(u[2], v[2])

FiniteCrop(c) == IsFinite(c.centerX) /\ IsFinite(c.centerY)

\* clip position of the image point p under the current transform
Shown(p) == VecMat(p, ComposedTransform(zoom, crop, aspectScale, TRUE))

\* clip position of the image point p under the transform before the last event
ShownBefore(p) == VecMat(p, ComposedTransform(pre.zoom, pre.crop, pre.aspectScale, TRUE))

\* C1: cursor-centred zoom.  After a wheel event that started from a zoom > 0,
\* the image point that the transform before the event mapped to the cursor's
\* clip position (there is one whenever the pan is finite) is mapped to the
\* same clip position by the transform after the event (within 1e-4).
C1_CursorPointKept ==
    (lastEv.op = "wheelEvent" /\ RGt(pre.zoom, Zero))
    => LET clipPoint == ClipPoint(lastEv.x, lastEv.y, width, height)
           p         == ImagePoint(pre.zoom, pre.crop, pre.aspectScale, clipPoint)
       IN  /\ FiniteCrop(pre.crop) => NearVec(ShownBefore(p), clipPoint)
           /\ NearVec(ShownBefore(p), clipPoint) => NearVec(Shown(p), clipPoint)

\* a wheel event at an off-centre cursor over a rotated image moved the pan
C1_Witness ==
    /\ lastEv.op = "wheelEvent"
    /\ RGt(pre.zoom, Zero)
    /\ RNe(pre.crop.rotation, Zero)
    /\ zoom # pre.zoom
    /\ crop.centerX # pre.crop.centerX

\* C2: the F key (fitToViewport) leaves zoom = 1, pan = (0,0), rotation = 0
\* exactly, whatever the state before.
C2_FitResets ==
    (lastEv.op = "keyPressEvent" /\ lastEv.b)
    => /\ zoom = One
       /\ crop.centerX = Zero
       /\ crop.centerY = Zero
       /\ crop.rotation = Zero

\* the F key was pressed with a zoom and a pan that were not the defaults
C2_Witness ==
    /\ lastEv.op = "keyPressEvent"
    /\ lastEv.b
    /\ pre.zoom # One
    /\ pre.crop.centerX # Zero
    /\ zoom = One

\* C3: a wheel event of +n notches followed by one of -n notches at the same
\* cursor returns zoom and pan to their values before the first event and
\* leaves the rotation as it was, from any state.
C3_WheelRoundTrip ==
    rt.phase = 2
    => /\ zoom = rt.zoom
       /\ crop.centerX = rt.crop.centerX
       /\ crop.centerY = rt.crop.centerY
       /\ crop.rotation = rt.crop.rotation

\* C4: zoom stays bounded away from 0 in every reachable state.  Whatever the
\* epsilon, the bound implies zoom > 0, which is what is stated here.
C4_ZoomBoundedAwayFromZero == RGt(zoom, Zero)

\* the fit rule for the current sizes: (1, va/ia) if ia > va, else (ia/va, 1)
FitRule ==
    LET va == RDiv(F(width), F(height))
        ia == RDiv(F(imgData.width), F(imgData.height))
    IN  IF RGt(ia, va) THEN <<One, RDiv(va, ia)>> ELSE <<RDiv(ia, va), One>>

Loaded == m_tex # 0 /\ imgData.width > 0 /\ imgData.height > 0 /\ width > 0 /\ height > 0

InClipSquare(v) ==
    /\ RGe(v[1], F(-1)) /\ RGe(One, v[1])
    /\ RGe(v[2], F(-1)) /\ RGe(One, v[2])

QuadCorners == { <<Zero, Zero, One>>, <<One, Zero, One>>, <<One, One, One>>, <<Zero, One, One>> }

\* C5: with an image loaded and a non-zero viewport, aspectScale is the fit
\* rule for the current sizes; both components lie in (0,1] and one is 1; at
\* zoom 1, pan 0, rotation 0 the quad lies inside the clip square, and its
\* drawn width : height is the image's width : height.
C5_AspectFit ==
    Loaded
    => /\ aspectScale = FitRule
       /\ RGt(aspectScale[1], Zero) /\ RGe(One, aspectScale[1])
       /\ RGt(aspectScale[2], Zero) /\ RGe(One, aspectScale[2])
       /\ aspectScale[1] = One \/ aspectScale[2] = One
       /\ \A q \in QuadCorners :
             InClipSquare(VecMat(q, ComposedTransform(FitZoom, FitCrop, aspectScale, TRUE)))
       /\ RDiv(RMul(aspectScale[1], F(width)), RMul(aspectScale[2], F(height)))
            = RDiv(F(imgData.width), F(imgData.height))

\* the widget was resized with an image loaded and the scale is not (1,1)
C5_Witness ==
    /\ Loaded
    /\ lastEv.op = "resizeGL"
    /\ aspectScale # pre.aspectScale
    /\ aspectScale # <<One, One>>

Is4000x3000In800x800 ==
    /\ m_tex # 0
    /\ imgData = [width |-> 4000, height |-> 3000]
    /\ width = 800
    /\ height = 800

\* C6 as it was claimed: an image of 4000x3000 in a viewport of 800x800 has
\* aspectScale = (1.0, 0.6).
C6_Original ==
    Is4000x3000In800x800 => NearVec(aspectScale, <<One, Rat(6, 10)>>)

\* C6: an image of 4000x3000 in a viewport of 800x800 has aspectScale =
\* (1.0, 0.75): viewport aspect 1.0 over image aspect 4/3.
C6_AspectScale4000x3000 ==
    Is4000x3000In800x800 => NearVec(aspectScale, <<One, Rat(3, 4)>>)

C6_Witness ==
    /\ Is4000x3000In800x800
    /\ lastEv.op = "setImage"

\* C7: immediately after setImage, zoom = 1, pan = (0,0) and rotation = 0.
C7_LoadResets ==
    lastEv.op = "setImage"
    => /\ zoom = One
       /\ crop.centerX = Zero
       /\ crop.centerY = Zero
       /\ crop.rotation = Zero

\* an image was loaded over a view that was zoomed and panned
C7_Witness ==
    /\ lastEv.op = "setImage"
    /\ pre.zoom # One
    /\ pre.crop.centerX # Zero
    /\ zoom = One

\* C8: texture ownership.  After any number of setImage calls the widget owns
\* exactly one live texture, the one _m_tex points to; every earlier texture
\* was deleted exactly once, and before its replacement was created (never
\* two alive at a time); paintGL and exportImage drew only with a live texture.
C8_TextureOwnership ==
    /\ texLive = (IF m_tex = 0 THEN {} ELSE {m_tex})
    /\ m_tex = texCreated
    /\ \A i \in 1..texCreated : texDeletes[i] = (IF i = m_tex THEN 0 ELSE 1)
    /\ texPeak <= 1
    /\ frame.drew => frame.texWasLive

\* a second image replaced the first and was then drawn
C8_Witness ==
    /\ texCreated >= 2
    /\ frame.drew
    /\ frame.tex = m_tex
    /\ texDeletes[1] = 1

\* C16: a drag with the left button held while not rotating adds
\* dx/width/zoom to the pan's x and subtracts dy/height/zoom from its y, and
\* leaves zoom and rotation as they were; a drag while rotating adds 0.01*dx to
\* the rotation and leaves pan and zoom as they were.
C16_DragGestures ==
    lastEv.op = "mouseMoveEvent" =>
        /\ zoom = pre.zoom
        /\ (~rotating /\ lastEv.b) =>
              /\ crop.centerX =
                    RAdd(pre.crop.centerX, RDiv(RDiv(F(lastEv.x), F(width)), pre.zoom))
              /\ crop.centerY =
                    RSub(pre.crop.centerY, RDiv(RDiv(F(lastEv.y), F(height)), pre.zoom))
              /\ crop.rotation = pre.crop.rotation
        /\ rotating =>
              /\ crop.rotation = RAdd(pre.crop.rotation, RMul(F(lastEv.x), Rat(1, 100)))
              /\ crop.centerX = pre.crop.centerX
              /\ crop.centerY = pre.crop.centerY

\* a pan drag down and to the right at a zoom other than 1
C16_Witness ==
    /\ lastEv.op = "mouseMoveEvent"
    /\ ~rotating /\ lastEv.b
    /\ lastEv.x > 0 /\ lastEv.y > 0
    /\ pre.zoom = F(2)
    /\ RLt(crop.centerY, pre.crop.centerY)
    /\ RGt(crop.centerX, pre.crop.centerX)

\* C18: without a texture paintGL clears and returns with nothing bound or
\* drawn, exportImage returns false and renders nothing, and neither changes
\* the view, the adjustments or the image.
C18_NoTexture ==
    [][ (m_tex = 0 /\ nEvents' # nEvents /\ lastEv'.op \in {"paintGL", "exportImage"})
        => /\ UNCHANGED << zoom, crop, aspectScale, width, height, imgData, m_tex,
                           texCreated, texLive, texDeletes, adjustVars >>
           /\ lastEv'.op = "paintGL"
                 => (frame'.painted /\ ~frame'.drew /\ frame'.tex = 0)
           /\ lastEv'.op = "exportImage"
                 => (~lastEv'.b /\ frame' = frame) ]_vars

\* paintGL and then exportImage before any image was set
C18_Witness ==
    /\ m_tex = 0
    /\ lastEv.op = "exportImage"
    /\ ~lastEv.b
    /\ frame.painted /\ ~frame.drew

\* ------------------------------------------------------------------------
\* Degenerate geometry: the widget collapsed to zero height or zero width (its
\* size is what width() and height() return), with or without an image
\* ------------------------------------------------------------------------
ZeroViewports == { <<800, 0>>, <<0, 800>> }

GeometryInit ==
    /\ WidgetInitSized(Viewports \cup ZeroViewports)
    /\ ColorIdle
    /\ AdjustInit
    /\ DisplayIdle
    /\ AppIdle /\ ComponentIdle

GeometryNext ==
    \/ SetImage
    \/ MousePressEvent
    \/ MouseMoveEvent
    \/ WheelEvent

GeometrySpec == GeometryInit /\ [][GeometryNext]_vars

\* the viewport has zero height or width, or the image is absent or zero-sized
Degenerate ==
    \/ width = 0
    \/ height = 0
    \/ m_tex = 0
    \/ imgData.width = 0
    \/ imgData.height = 0

\* C17: with a zero-sized viewport or no image, updateAspectScale keeps the
\* aspect scale it had, and wheelEvent and mouseMoveEvent leave zoom and pan
\* as they were.
C17_DegenerateGeometry ==
    /\ (lastEv.op = "setImage" /\ (width = 0 \/ height = 0))
          => aspectScale = pre.aspectScale
    /\ (lastEv.op \in {"wheelEvent", "mouseMoveEvent"} /\ Degenerate)
          => /\ zoom = pre.zoom
             /\ crop.centerX = pre.crop.centerX
             /\ crop.centerY = pre.crop.centerY


\* ------------------------------------------------------------------------
\* colortransform.h: XYZ to ACEScg
\* Matrix entries are in ten-thousandths, pixel channels in whole units, and
\* the arithmetic is exact: the products of one matrix are in ten-thousandths
\* and those of two in hundred-millionths.  The rounding of float and of the
\* final half(...) store is not modelled.
\* ------------------------------------------------------------------------
\* channel values of the pixels converted
Channels == { -1, 0, 1, 2, 3 }

\* xyzToACEScg: static const float XYZ_to_AP0[3][3]
XYZ_to_AP0 == << << 9526,    0,     1 >>,
                 << 3440, 7282,  -721 >>,
                 <<    0,    0, 10088 >> >>

\* xyzToACEScg: static const float AP0_to_AP1[3][3]
AP0_to_AP1 == << << 14514, -2365, -2149 >>,
                 <<  -766, 11762,  -997 >>,
                 <<    83,   -60,  9977 >> >>

\* applyMatrix3x3(M, r, g, b): rr, gg, bb from the r, g, b passed in
ApplyMatrix3x3(M, p) ==
    << M[1][1] * p[1] + M[1][2] * p[2] + M[1][3] * p[3],
       M[2][1] * p[1] + M[2][2] * p[2] + M[2][3] * p[3],
       M[3][1] * p[1] + M[3][2] * p[2] + M[3][3] * p[3] >>

\* multiplyMatrix3x3 with the operands exchanged: result = B * A
MultiplyMatrix3x3_Swapped(A, B) ==
    << << B[1][1] * A[1][1] + B[1][2] * A[2][1] + B[1][3] * A[3][1],
          B[1][1] * A[1][2] + B[1][2] * A[2][2] + B[1][3] * A[3][2],
          B[1][1] * A[1][3] + B[1][2] * A[2][3] + B[1][3] * A[3][3] >>,
       << B[2][1] * A[1][1] + B[2][2] * A[2][1] + B[2][3] * A[3][1],
          B[2][1] * A[1][2] + B[2][2] * A[2][2] + B[2][3] * A[3][2],
          B[2][1] * A[1][3] + B[2][2] * A[2][3] + B[2][3] * A[3][3] >>,
       << B[3][1] * A[1][1] + B[3][2] * A[2][1] + B[3][3] * A[3][1],
          B[3][1] * A[1][2] + B[3][2] * A[2][2] + B[3][3] * A[3][2],
          B[3][1] * A[1][3] + B[3][2] * A[2][3] + B[3][3] * A[3][3] >> >>

\* multiplyMatrix3x3(A, B, result): result[i][j] = sum over k of A[i][k]*B[k][j]
MultiplyMatrix3x3(A, B) ==
    << << A[1][1] * B[1][1] + A[1][2] * B[2][1] + A[1][3] * B[3][1],
          A[1][1] * B[1][2] + A[1][2] * B[2][2] + A[1][3] * B[3][2],
          A[1][1] * B[1][3] + A[1][2] * B[2][3] + A[1][3] * B[3][3] >>,
       << A[2][1] * B[1][1] + A[2][2] * B[2][1] + A[2][3] * B[3][1],
          A[2][1] * B[1][2] + A[2][2] * B[2][2] + A[2][3] * B[3][2],
          A[2][1] * B[1][3] + A[2][2] * B[2][3] + A[2][3] * B[3][3] >>,
       << A[3][1] * B[1][1] + A[3][2] * B[2][1] + A[3][3] * B[3][1],
          A[3][1] * B[1][2] + A[3][2] * B[2][2] + A[3][3] * B[3][2],
          A[3][1] * B[1][3] + A[3][2] * B[2][3] + A[3][3] * B[3][3] >> >>

\* a pixel of the XYZ image LibRaw delivered; nothing is converted yet, the
\* statics of xyzToACEScg are as the run of the program left them
ColorInit ==
    /\ WidgetInit
    /\ \E r \in Channels, g \in Channels, b \in Channels : xyz = <<r, g, b>>
    /\ ap0 = <<0, 0, 0>>
    /\ ap1 = <<0, 0, 0>>
    /\ chained = FALSE
    /\ acescg = <<0, 0, 0>>
    /\ converted = FALSE
    /\ XYZ_to_ACEScg = ZeroMatrix
    /\ matrix_computed = FALSE
    /\ AdjustInit
    /\ DisplayIdle
    /\ AppIdle /\ ComponentIdle

\* the next pixel (of this image or of the next one loaded)
NextPixel ==
    /\ chained \/ converted
    /\ \E r \in Channels, g \in Channels, b \in Channels : xyz' = <<r, g, b>>
    /\ ap0' = <<0, 0, 0>>
    /\ ap1' = <<0, 0, 0>>
    /\ chained' = FALSE
    /\ acescg' = <<0, 0, 0>>
    /\ converted' = FALSE
    /\ UNCHANGED << XYZ_to_ACEScg, matrix_computed, widgetVars, adjustVars, displayVars,
                    appVars, componentVars >>

\* the chain of cameraToACEScg on an XYZ pixel: applyMatrix3x3(XYZ_to_AP0, r, g, b)
\* and then applyMatrix3x3(AP0_to_AP1, r, g, b)
ApplyChain ==
    /\ ~chained
    /\ ap0' = ApplyMatrix3x3(XYZ_to_AP0, xyz)
    /\ ap1' = ApplyMatrix3x3(AP0_to_AP1, ap0')
    /\ chained' = TRUE
    /\ UNCHANGED << xyz, acescg, converted, XYZ_to_ACEScg, matrix_computed, widgetVars,
                    adjustVars, displayVars, appVars, componentVars >>

\* xyzToACEScg on the pixel: the combined matrix is computed by the first call
\* only, then one multiply with it
XyzToACEScg ==
    /\ ~converted
    /\ XYZ_to_ACEScg' = IF matrix_computed THEN XYZ_to_ACEScg
                        ELSE MultiplyMatrix3x3(AP0_to_AP1, XYZ_to_AP0)
    /\ matrix_computed' = TRUE
    /\ acescg' = ApplyMatrix3x3(XYZ_to_ACEScg', xyz)
    /\ converted' = TRUE
    /\ UNCHANGED << xyz, ap0, ap1, chained, widgetVars, adjustVars, displayVars,
                    appVars, componentVars >>

ColorNext ==
    \/ NextPixel
    \/ ApplyChain
    \/ XyzToACEScg

ColorSpec == ColorInit /\ [][ColorNext]_vars

\* ------------------------------------------------------------------------
\* Properties of the colour conversion (checked under ColorSpec)
\* ------------------------------------------------------------------------
\* C9: precomputed-matrix equivalence.  For every pixel, the one multiply by
\* the matrix xyzToACEScg builds with multiplyMatrix3x3(AP0_to_AP1, XYZ_to_AP0)
\* gives what applyMatrix3x3 with XYZ_to_AP0 and then with AP0_to_AP1 gives,
\* exactly, on the first call and on the later ones that reuse the matrix.
C9_PrecomputedEquivalence ==
    (chained /\ converted) => acescg = ap1

\* a pixel with three different non-zero channels went both ways
C9_Witness ==
    /\ chained
    /\ converted
    /\ xyz = <<1, 2, 3>>
    /\ acescg # <<0, 0, 0>>
    /\ ap0 # xyz

\* the product the comment of applyMatrix3x3 documents:
\* [r' g' b'] = [r g b] * M, out[j] = r*M[0][j] + g*M[1][j] + b*M[2][j]
RowVectorProduct(p, M) ==
    << p[1] * M[1][1] + p[2] * M[2][1] + p[3] * M[3][1],
       p[1] * M[1][2] + p[2] * M[2][2] + p[3] * M[3][2],
       p[1] * M[1][3] + p[2] * M[2][3] + p[3] * M[3][3] >>

\* C10: applyMatrix3x3 performs the row-vector product documented for it:
\* after the two calls of the chain, each result is [r g b] * M of its input.
C10_RowVectorProduct ==
    chained => /\ ap0 = RowVectorProduct(xyz, XYZ_to_AP0)
               /\ ap1 = RowVectorProduct(ap0, AP0_to_AP1)

\* ------------------------------------------------------------------------
\* From the working space back to XYZ: the first two matrices of
\* acesCgToDisplay, on a pixel xyzToACEScg converted
\* ------------------------------------------------------------------------
\* acesCgToDisplay: static const float AP1_to_AP0[3][3]
AP1_to_AP0 == << << 6955, 1407,  1639 >>,
                 <<  448, 8597,   955 >>,
                 <<  -55,   40, 10015 >> >>

\* the inverse of XYZ_to_AP0, in ten-thousandths
AP0_to_XYZ_Inverse == << << 10498,     0,   -1 >>,
                         << -4959, 13733,  982 >>,
                         <<     0,     0, 9913 >> >>

\* acesCgToDisplay: static const float AP0_to_XYZ[3][3]
AP0_to_XYZ == << << 9526,    0,     1 >>,
                 << 3440, 7282,  -721 >>,
                 <<    0,    0, 10088 >> >>

\* the value stored between two steps: ten-thousandths kept, the rest dropped
\* (the code stores halfs, which keep less)
Stored(p) == << p[1] \div 10000, p[2] \div 10000, p[3] \div 10000 >>

\* the loop body of acesCgToDisplay up to XYZ, on the pixel xyzToACEScg stored:
\* applyMatrix3x3(AP1_to_AP0, r, g, b); applyMatrix3x3(AP0_to_XYZ, r, g, b)
AcesCgToXyz ==
    /\ converted
    /\ ~roundTrip.done
    /\ LET a0 == Stored(ApplyMatrix3x3(AP1_to_AP0, Stored(acescg)))
       IN  roundTrip' = [done |-> TRUE, from |-> xyz, ap0 |-> a0,
                         xyz |-> Stored(ApplyMatrix3x3(AP0_to_XYZ, a0))]
    /\ UNCHANGED << widgetVars, colorVars, adjustVars, displayVars, appVars,
                    convertVars, sliderVars, panVars, loopVars >>

InverseNext ==
    \/ XyzToACEScg
    \/ AcesCgToXyz

InverseSpec == ColorInit /\ [][InverseNext]_vars

\* A * B is the identity within 0.001 (entries in hundred-millionths)
InverseOf(A, B) ==
    LET P == MultiplyMatrix3x3(A, B)
    IN  \A i \in 1..3 : \A j \in 1..3 :
            Abs(P[i][j] - (IF i = j THEN 100000000 ELSE 0)) <= 100000

\* C27: AP1_to_AP0 is the inverse of AP0_to_AP1 and AP0_to_XYZ the inverse of
\* XYZ_to_AP0, and a pixel converted XYZ -> ACEScg by xyzToACEScg and taken
\* back ACEScg -> AP0 -> XYZ by the matrices of acesCgToDisplay has its
\* original value within 0.01.
C27_RoundTrip ==
    /\ InverseOf(AP1_to_AP0, AP0_to_AP1)
    /\ InverseOf(AP0_to_XYZ, XYZ_to_AP0)
    /\ roundTrip.done =>
          \A i \in 1..3 : Abs(roundTrip.xyz[i] - 10000 * roundTrip.from[i]) <= 100

\* the first half of the way back does undo the second half of the way there
C27_Ap0Recovered ==
    /\ InverseOf(AP1_to_AP0, AP0_to_AP1)
    /\ roundTrip.done =>
          \A i \in 1..3 :
              Abs(roundTrip.ap0[i] - ApplyMatrix3x3(XYZ_to_AP0, roundTrip.from)[i]) <= 100

\* ------------------------------------------------------------------------
\* The display transform: the fragment shader (glsl_shaders.h) and the C++
\* acesCgToDisplay.  White balance, exposure and contrast are computed in the
\* exact arithmetic above.  The colour matrix, the tone curve and the sRGB
\* encoding of a pixel are kept as the names of the functions applied, in the
\* order of application, on top of the numbers they were applied to.
\* ------------------------------------------------------------------------
\* pixels <<r, g, b>> of a linear ACEScg image
Texels == { <<Zero, Zero, Zero>>,
            <<Rat(18, 100), One, Zero>>,
            <<One, Rat(1, 2), Zero>>,
            <<F(2), One, Rat(1, 2)>>,
            <<Rat(-1, 10), Rat(1, 2), One>> }

\* exposure in whole stops
Exposures == { -1, 0, 1 }

\* white balance multipliers handed to setWB
WhiteBalances == { <<One, One, One>>, <<Rat(11, 10), One, Rat(10, 11)>> }

\* contrast multipliers within the slider's range 0.1 .. 3.0
Contrasts == { Rat(1, 2), One, F(3) }

\* pow(2.0, exposure)
Pow2(e) == IF e >= 0 THEN <<IPow(2, e), 1>> ELSE <<1, IPow(2, -e)>>

\* GLSL max(x, y): y if x < y, else x
GlslMax(x, y) == IF RLt(x, y) THEN y ELSE x

\* the contrast statement of an earlier shader: pivot 0.5, no clamp
ContrastStage_Half(c, k) == RAdd(RMul(RSub(c, Rat(1, 2)), k), Rat(1, 2))

\* max(vec3(0.0), (acesCg - 0.18) * contrast + 0.18), one channel
ContrastStage(c, k) ==
    GlslMax(Zero, RAdd(RMul(RSub(c, Rat(18, 100)), k), Rat(18, 100)))

\* the statements whose result is computed in numbers
NumericStages == { "wb", "exposure", "contrast" }

\* the 3x3 matrices of the display paths
MatrixStages == { "ACEScg_to_Rec709", "AP1_to_AP0", "AP0_to_XYZ", "XYZ_to_sRGB" }

\* one statement applied to the value v
Stage(name, v) ==
    IF name \in NumericStages /\ v.applied = << >>
    THEN Val(CASE name = "wb" ->
                    << RMul(v.base[1], wb[1]), RMul(v.base[2], wb[2]),
                       RMul(v.base[3], wb[3]) >>
               [] name = "exposure" ->
                    << RMul(v.base[1], Pow2(exposure)), RMul(v.base[2], Pow2(exposure)),
                       RMul(v.base[3], Pow2(exposure)) >>
               [] OTHER ->
                    << ContrastStage(v.base[1], contrast),
                       ContrastStage(v.base[2], contrast),
                       ContrastStage(v.base[3], contrast) >>)
    ELSE [base |-> v.base, applied |-> Append(v.applied, name)]

\* the values after each of the statements prog[i], prog[i+1], ... from v
RECURSIVE RunStages(_, _, _)
RunStages(prog, i, v) ==
    IF i > Len(prog) THEN << >>
    ELSE << Stage(prog[i], v) >> \o RunStages(prog, i + 1, Stage(prog[i], v))

\* main of the debugging revision of the shader: white balance commented out,
\* the matrix skipped
ShaderMain_NoMatrix == << "exposure", "contrast", "acesToneMap", "linearToSRGB" >>

\* main of the fragment shader, from the texture sample to srgb_display
ShaderMain ==
    << "wb", "exposure", "contrast", "ACEScg_to_Rec709", "acesToneMap", "linearToSRGB" >>

\* the loop body of acesCgToDisplay, from the load of the pixel to the store
CpuLoopBody ==
    << "AP1_to_AP0", "AP0_to_XYZ", "XYZ_to_sRGB", "acesToneMap", "linearToSRGB" >>

\* display-linear values handed to linearToSRGB (the tone curve clamps to [0,1])
SrgbInputs == { Zero, Rat(1, 1000), Rat(31308, 10000000), Rat(18, 100), Rat(1, 2), One }

\* 12.92 * linear
SrgbLinearBranch(x) == RMul(Rat(1292, 100), x)

\* 1.055 * pow(linear, 1.0/2.4) - 0.055 at the values of SrgbInputs, to nine
\* decimals
SrgbPowerBranch(x) ==
    CASE x = Zero -> Rat(-55, 1000)
      [] x = Rat(1, 1000) -> Rat(4327010, 1000000000)
      [] x = Rat(31308, 10000000) -> Rat(40449907, 1000000000)
      [] x = Rat(18, 100) -> Rat(461356130, 1000000000)
      [] x = Rat(1, 2) -> Rat(735356983, 1000000000)
      [] x = One -> One

\* C++ linearToSRGB: the linear branch for linear <= 0.0031308f
LinearToSRGB(x) ==
    IF ~RGt(x, Rat(31308, 10000000)) THEN SrgbLinearBranch(x) ELSE SrgbPowerBranch(x)

\* GLSL step(edge, x): 0.0 if x < edge, else 1.0
GlslStep(edge, x) == IF RLt(x, edge) THEN Zero ELSE One

\* GLSL mix(x, y, a) = x*(1-a) + y*a
GlslMix(x, y, a) == RAdd(RMul(x, RSub(One, a)), RMul(y, a))

\* GLSL linearToSRGB, one channel
LinearToSRGB_GLSL(x) ==
    GlslMix(SrgbLinearBranch(x), SrgbPowerBranch(x), GlslStep(Rat(31308, 10000000), x))

\* a frame is drawn with the uniforms the widget holds; no fragment computed yet
DisplayInit ==
    /\ WidgetInit
    /\ ColorIdle
    /\ exposure \in Exposures
    /\ wb \in WhiteBalances
    /\ contrast \in Contrasts
    /\ DisplayIdle
    /\ AppIdle /\ ComponentIdle

\* the next fragment (pixel)
NextFragment ==
    /\ fragDone \/ cpuDone
    /\ texel' \in Texels
    /\ inside' \in BOOLEAN
    /\ onGridLine' \in BOOLEAN
    /\ fragDone' = FALSE
    /\ fragStages' = << >>
    /\ fragColor' = Val(<<Zero, Zero, Zero>>)
    /\ cpuDone' = FALSE
    /\ cpuStages' = << >>
    /\ UNCHANGED << srgbIn, srgbCpu, srgbGlsl, widgetVars, colorVars, adjustVars,
                    appVars, componentVars >>

\* the fragment shader's main: black outside the texture, else the statements
\* of ShaderMain on the sampled texel, then the grid overlay
FragmentMain ==
    /\ ~fragDone
    /\ fragDone' = TRUE
    /\ fragStages' = IF inside THEN RunStages(ShaderMain, 1, Val(texel)) ELSE << >>
    /\ fragColor' = IF ~inside THEN Val(<<Zero, Zero, Zero>>)
                    ELSE IF showGrid /\ onGridLine THEN Val(<<One, One, One>>)
                    ELSE fragStages'[Len(fragStages')]
    /\ UNCHANGED << texel, inside, onGridLine, cpuDone, cpuStages, srgbIn, srgbCpu,
                    srgbGlsl, widgetVars, colorVars, adjustVars,
                    appVars, componentVars >>

\* acesCgToDisplay on one pixel
AcesCgToDisplay ==
    /\ ~cpuDone
    /\ cpuDone' = TRUE
    /\ cpuStages' = RunStages(CpuLoopBody, 1, Val(texel))
    /\ UNCHANGED << texel, inside, onGridLine, fragDone, fragStages, fragColor, srgbIn,
                    srgbCpu, srgbGlsl, widgetVars, colorVars, adjustVars,
                    appVars, componentVars >>

\* linearToSRGB on one display-linear value, by the C++ and by the GLSL code
EncodeSample ==
    /\ \E x \in SrgbInputs :
          /\ srgbIn' = x
          /\ srgbCpu' = LinearToSRGB(x)
          /\ srgbGlsl' = LinearToSRGB_GLSL(x)
    /\ UNCHANGED << texel, inside, onGridLine, fragDone, fragStages, fragColor, cpuDone,
                    cpuStages, widgetVars, colorVars, adjustVars,
                    appVars, componentVars >>

\* a button pressed before the frame is drawn: the grid goes on or off
PressBeforeFrame ==
    /\ nEvents = 0
    /\ ~fragDone /\ ~cpuDone
    /\ MousePressEvent

DisplayNext ==
    \/ PressBeforeFrame
    \/ NextFragment
    \/ FragmentMain
    \/ AcesCgToDisplay
    \/ EncodeSample

DisplaySpec == DisplayInit /\ [][DisplayNext]_vars

\* ------------------------------------------------------------------------
\* Properties of the display transform
\* ------------------------------------------------------------------------
\* the display functions applied to a pixel: one or more matrices, then the
\* tone curve, then the sRGB encoding, each on the output of the one before
MatrixToneGamma(applied) ==
    /\ Len(applied) >= 3
    /\ \A i \in 1..(Len(applied) - 2) : applied[i] \in MatrixStages
    /\ applied[Len(applied) - 1] = "acesToneMap"
    /\ applied[Len(applied)] = "linearToSRGB"

C12_ContrastStage ==
    (fragDone /\ inside) =>
        \A i \in 1..3 :
            /\ fragStages[2].base[i] = Rat(18, 100)
                  => fragStages[3].base[i] = Rat(18, 100)
            /\ (contrast = One /\ RGe(fragStages[2].base[i], Zero))
                  => fragStages[3].base[i] = fragStages[2].base[i]
            /\ \A k \in 1..Len(fragStages) :
                  fragStages[k].applied # << >> => RGe(fragStages[k].base[i], Zero)

\* a pixel with a channel at 0.18 and a channel the contrast drives negative
C12_Witness ==
    /\ fragDone /\ inside
    /\ contrast = F(3)
    /\ fragStages[2].base = << Rat(18, 100), One, Zero >>
    /\ fragStages[3].base = << Rat(18, 100), Rat(264, 100), Zero >>
    /\ fragStages[4].applied = << "ACEScg_to_Rec709" >>

\* |a - b| < 1e-6
Within1e6(a, b) == RLt(RAbs(RSub(a, b)), Rat(1, 1000000))

\* C13: linearToSRGB maps 0.0 to 0.0 and 1.0 to 1.0, its two branches agree
\* within 1e-6 at 0.0031308, and the C++ and the GLSL implementation give the
\* same output for every input.
C13_SrgbSameOutput ==
    /\ srgbIn = Zero => (srgbCpu = Zero /\ srgbGlsl = Zero)
    /\ srgbIn = One => (srgbCpu = One /\ srgbGlsl = One)
    /\ srgbIn = Rat(31308, 10000000)
          => Within1e6(SrgbLinearBranch(srgbIn), SrgbPowerBranch(srgbIn))
    /\ srgbCpu = srgbGlsl

\* C28: showGrid = rotating in every reachable state; a press of the right
\* button turns both on, a press of another button turns both off, and no
\* other event changes either of them.
C28_GridIffRotating ==
    /\ showGrid = rotating
    /\ [][ /\ showGrid' = rotating'
           /\ (nEvents' # nEvents /\ lastEv'.op = "mousePressEvent")
                 => rotating' = lastEv'.b
           /\ (nEvents' # nEvents /\ lastEv'.op # "mousePressEvent")
                 => UNCHANGED << rotating, showGrid >> ]_vars

\* the grid went on with a right press, stayed on over a move, and went off
\* with a left press
C28_Witness ==
    /\ lastEv.op = "mousePressEvent"
    /\ ~lastEv.b
    /\ ~showGrid /\ ~rotating
    /\ nEvents = 3
    /\ RNe(crop.rotation, Zero)

\* paintGL's loop qtTransform(j, i) = transform[i][j]: the QMatrix3x3 by
\* row and column
QtTransform(T) ==
    << << T[1][1], T[2][1], T[3][1] >>,
       << T[1][2], T[2][2], T[3][2] >>,
       << T[1][3], T[2][3], T[3][3] >> >>

\* the nine floats setUniformValue hands to the shader: QMatrix3x3 keeps its
\* entries column after column
QtData(qt) == [k \in 0..8 |-> qt[(k % 3) + 1][(k \div 3) + 1]]

\* the shader's mat3 by row and column, read from the floats column after
\* column
GlslMat3(data) ==
    << << data[0], data[3], data[6] >>,
       << data[1], data[4], data[7] >>,
       << data[2], data[5], data[8] >> >>

\* the vertex shader: pos = transform * vec3(aPos, 1.0), gl_Position = pos.xy
VertexMain(aPos, M) ==
    LET v == << aPos[1], aPos[2], One >>
    IN  << RAdd(RAdd(RMul(M[1][1], v[1]), RMul(M[1][2], v[2])), RMul(M[1][3], v[3])),
           RAdd(RAdd(RMul(M[2][1], v[1]), RMul(M[2][2], v[2])), RMul(M[2][3], v[3])) >>

\* the uniform "transform" as paintGL uploads it in the current state
Uploaded33 ==
    GlslMat3(QtData(QtTransform(ComposedTransform(zoom, crop, aspectScale, TRUE))))

\* the vertex shader puts every corner of the quad where the row-vector
\* transform of wheelEvent puts it
SameClipPosition ==
    \A p \in QuadCorners :
        LET cpu == Shown(p)
        IN  VertexMain(p, Uploaded33) = << cpu[1], cpu[2] >>

\* the image point wheelEvent computes for the cursor at pt is drawn at pt
DrawnUnderCursor(pt) ==
    LET clipPoint == ClipPoint(pt[1], pt[2], width, height)
        imagePoint == ImagePoint(zoom, crop, aspectScale, clipPoint)
    IN  NearVec(VertexMain(imagePoint, Uploaded33), clipPoint)

\* C26: in every viewport state the matrix paintGL uploads sends each quad
\* point to the clip position the matrix of wheelEvent sends it to, and the
\* image point wheelEvent computes for a cursor is the point drawn under the
\* cursor.
C26_CpuGpuAgree ==
    /\ SameClipPosition
    /\ \A pt \in Points : DrawnUnderCursor(pt)

\* the same with the second part kept to the states where the transform can
\* be inverted: zoom > 0 and a finite pan
C26_AgreeWhereInvertible ==
    /\ SameClipPosition
    /\ (RGt(zoom, Zero) /\ FiniteCrop(crop)) => \A pt \in Points : DrawnUnderCursor(pt)

\* a rotated, panned and zoomed view in which both parts hold
C26_RotatedView ==
    /\ RNe(crop.rotation, Zero)
    /\ RNe(crop.centerX, Zero)
    /\ zoom # One /\ RGt(zoom, Zero)
    /\ C26_CpuGpuAgree

\* ------------------------------------------------------------------------
\* GLImageWidget::setPan next to the operations that build the transform
\* ------------------------------------------------------------------------
\* arguments of setPan
PanArgs == { << Zero, Zero >>, << Rat(1, 4), Rat(-1, 4) >> }

\* GLImageWidget::setPan: panX = x; panY = y; update()
SetPan ==
    \E p \in PanArgs :
        /\ Logged(Ev("setPan", p[1], p[2], 0, FALSE))
        /\ panX' = p[1]
        /\ panY' = p[2]
        /\ rt' = NoRt
        /\ UNCHANGED << zoom, crop, aspectScale, width, height, imgData, m_tex,
                        lastMousePos, rotating, showGrid, texCreated, texLive, texDeletes,
                        texPeak, frame, colorVars, adjustVars, displayVars, appVars,
                        convertVars, sliderVars, inverseVars, loopVars >>

PanNext ==
    \/ SetImage
    \/ SetZoom
    \/ SetPan
    \/ MousePressEvent
    \/ MouseMoveEvent
    \/ WheelEvent
    \/ PaintGL

PanSpec == Init /\ [][PanNext]_vars

\* C24: after setPan(x, y) the transform that paintGL builds and wheelEvent
\* inverts ends in the translation by (x, y): it is the transform without
\* the pan followed by that translation.
C24_SetPanTranslates ==
    lastEv.op = "setPan" =>
        ComposedTransform(zoom, crop, aspectScale, TRUE)
            = MatMul(ComposedTransform(zoom, crop, aspectScale, FALSE),
                     SetTranslation(lastEv.x, lastEv.y))

\* ------------------------------------------------------------------------
\* The main window: the sliders, updateGlWidget, and loadRaw as started from
\* File > Open, from a drop and from the command line
\* ------------------------------------------------------------------------
\* values of the temperature slider (range -1000 .. 1000)
KelvinShifts == { -1000, 0, 1000 }

\* RAW files as the decoder reads them: the size of the image, cam_mul of the
\* metadata, a pixel of the image, the exposure compensation
Files == { [size |-> <<4000, 3000>>, cam_mul |-> <<2, 1, 3>>, pixel |-> <<1, 2, 3>>,
            exposureCompensation |-> 1],
           [size |-> <<3000, 4000>>, cam_mul |-> <<1, 1, 1>>, pixel |-> <<0, 1, 0>>,
            exposureCompensation |-> 0] }

\* how loadRaw ends: it returns, or one of its steps throws
\* (open_file, unpack, dcraw_process in loadRawImage; convertLibRaw16ToHalf)
Failures == { "open", "unpack", "process", "convert" }

Entries == { "open", "drop", "argv" }

\* updateGlWidget: float alpha = 0.0001f
Alpha == Rat(1, 10000)

\* updateGlWidget with the blue multiplier left alone
RelativeWB_RedOnly(mul, shift) ==
    IF shift > 0
    THEN << RMul(mul[1], RAdd(One, RMul(Alpha, F(shift)))), mul[2], mul[3] >>
    ELSE IF shift < 0
    THEN << RDiv(mul[1], RSub(One, RMul(Alpha, F(shift)))), mul[2], mul[3] >>
    ELSE mul

\* updateGlWidget: the r, g, b it hands to setWB
RelativeWB(mul, shift) ==
    IF shift > 0
    THEN << RMul(mul[1], RAdd(One, RMul(Alpha, F(shift)))),
            mul[2],
            RDiv(mul[3], RAdd(One, RMul(Alpha, F(shift)))) >>
    ELSE IF shift < 0
    THEN << RDiv(mul[1], RSub(One, RMul(Alpha, F(shift)))),
            mul[2],
            RMul(mul[3], RSub(One, RMul(Alpha, F(shift)))) >>
    ELSE mul

\* a conversion that applies the camera's white balance before the matrix
\* ("Camera RGB -> Apply Camera WB -> XYZ")
ToWorkingSpace_CameraWB(M, p, mul) ==
    ApplyMatrix3x3(M, << p[1] * mul[1], p[2] * mul[2], p[3] * mul[3] >>)

\* the loop body of xyzToACEScg: one multiply by the combined matrix; the
\* file's cam_mul is not used
ToWorkingSpace(M, p, mul) == ApplyMatrix3x3(M, p)

\* the texel uploaded for a pixel of the converted image (matrix entries are
\* in ten-thousandths, their products in units of 1e-8)
Uploaded(p) == << Rat(p[1], 100000000), Rat(p[2], 100000000), Rat(p[3], 100000000) >>

\* a loadRaw that reaches setImage whatever the decoder did
ReachesSetImage_Always(outcome) == TRUE

\* loadRaw: loadRawImage and convertLibRaw16ToHalf come before setImage, and
\* their exceptions leave the function
ReachesSetImage(outcome) == outcome = "ok"

\* an updateGlWidget that hands on the exposure only
SliderValueChanged_ExposureOnly ==
    /\ ~escaped
    /\ \E e \in Exposures, k \in KelvinShifts, c \in Contrasts :
          /\ \/ e # exposureSlider /\ k = kelvinSlider /\ c = contrastSlider
             \/ e = exposureSlider /\ k # kelvinSlider /\ c = contrastSlider
             \/ e = exposureSlider /\ k = kelvinSlider /\ c # contrastSlider
          /\ Logged(Ev("valueChanged", e, k, 0, FALSE))
          /\ exposureSlider' = e
          /\ kelvinSlider' = k
          /\ contrastSlider' = c
          /\ exposure' = e
    /\ rt' = NoRt
    /\ UNCHANGED << zoom, crop, aspectScale, width, height, imgData, m_tex, lastMousePos,
                    rotating, showGrid, texCreated, texLive, texDeletes, texPeak, frame,
                    colorVars, displayVars, camMul, cam_mul, lastOpenedDirectory,
                    loadEntry, loadOutcome, messageShown, escaped, componentVars,
                    wb, contrast >>

\* a slider's valueChanged: setValue stored a value that differs, then
\* updateGlWidget read the three sliders
SliderValueChanged ==
    /\ ~escaped
    /\ \E e \in Exposures, k \in KelvinShifts, c \in Contrasts :
          /\ \/ e # exposureSlider /\ k = kelvinSlider /\ c = contrastSlider
             \/ e = exposureSlider /\ k # kelvinSlider /\ c = contrastSlider
             \/ e = exposureSlider /\ k = kelvinSlider /\ c # contrastSlider
          /\ Logged(Ev("valueChanged", e, k, 0, FALSE))
          /\ exposureSlider' = e
          /\ kelvinSlider' = k
          /\ contrastSlider' = c
          /\ exposure' = e
          /\ wb' = RelativeWB(camMul, k)
          /\ contrast' = c
    /\ rt' = NoRt
    /\ UNCHANGED << zoom, crop, aspectScale, width, height, imgData, m_tex, lastMousePos,
                    rotating, showGrid, texCreated, texLive, texDeletes, texPeak, frame,
                    colorVars, displayVars, camMul, cam_mul, lastOpenedDirectory,
                    loadEntry, loadOutcome, messageShown, escaped, componentVars >>

\* MainWindow::loadRaw(path) as started by entry; caught says whether the
\* caller wraps the call in try/catch
LoadRaw(entry, caught) ==
    \E outcome \in {"ok"} \cup Failures :
       \E file \in Files :
          /\ Logged(Ev("loadRaw", file.size[1], file.size[2], 0, outcome = "ok"))
          /\ loadEntry' = entry
          /\ loadOutcome' = outcome
          /\ lastOpenedDirectory' = "dir"
          /\ messageShown' = (outcome # "ok" /\ caught)
          /\ escaped' = (outcome # "ok" /\ ~caught)
          /\ UNCHANGED componentVars
          /\ IF ReachesSetImage(outcome)
             THEN /\ cam_mul' = file.cam_mul
                  /\ xyz' = file.pixel
                  /\ XYZ_to_ACEScg' = IF matrix_computed THEN XYZ_to_ACEScg
                                      ELSE MultiplyMatrix3x3(AP0_to_AP1, XYZ_to_AP0)
                  /\ matrix_computed' = TRUE
                  /\ acescg' = ToWorkingSpace(XYZ_to_ACEScg', xyz', file.cam_mul)
                  /\ converted' = TRUE
                  /\ SetImageTo(file.size)
                  /\ texel' = Uploaded(acescg')
                  /\ camMul' = <<One, One, One>>
                  /\ kelvinSlider' = 0
                  /\ exposureSlider' = file.exposureCompensation
                  /\ IF kelvinSlider # 0 \/ exposureSlider # file.exposureCompensation
                     THEN /\ exposure' = exposureSlider'
                          /\ wb' = RelativeWB(camMul', kelvinSlider')
                          /\ contrast' = contrastSlider
                     ELSE UNCHANGED << exposure, wb, contrast >>
                  /\ UNCHANGED << ap0, ap1, chained, contrastSlider, inside, onGridLine,
                                  fragDone, fragStages, fragColor, cpuDone, cpuStages,
                                  srgbIn, srgbCpu, srgbGlsl >>
             ELSE /\ rt' = rt
                  /\ UNCHANGED << zoom, crop, aspectScale, width, height, imgData, m_tex,
                                  lastMousePos, rotating, showGrid, texCreated, texLive,
                                  texDeletes, texPeak, frame, colorVars, adjustVars,
                                  displayVars, exposureSlider, kelvinSlider,
                                  contrastSlider, camMul, cam_mul >>

\* File > Open with a file chosen: try { loadRaw } catch -> QMessageBox::critical
OpenTriggered ==
    /\ ~escaped
    /\ LoadRaw("open", TRUE)

\* MainWindow::dropEvent with a supported file: loadRaw(filePath)
DropEvent ==
    /\ ~escaped
    /\ LoadRaw("drop", FALSE)

\* main with argc > 1: w.loadRaw(argv[1]) before a.exec()
MainArgv ==
    /\ nEvents = 0
    /\ LoadRaw("argv", FALSE)

AppNext ==
    \/ SliderValueChanged
    \/ OpenTriggered
    \/ DropEvent
    \/ MainArgv

AppSpec == Init /\ [][AppNext]_vars

\* ------------------------------------------------------------------------
\* Properties of the main window (checked under AppSpec)
\* ------------------------------------------------------------------------
\* f = 1 + alpha * |shift|
ShiftFactor(shift) == RAdd(One, RMul(Alpha, F(Abs(shift))))

\* C14: the multipliers the widget holds are the stored as-shot multipliers
\* for shift 0; green is the stored green for every shift; a positive shift
\* multiplies red by f and divides blue by f, a negative shift divides red by
\* f and multiplies blue by f, with f = 1 + alpha*|shift|.
C14_RelativeWB ==
    /\ wb[2] = camMul[2]
    /\ kelvinSlider = 0 => wb = camMul
    /\ kelvinSlider > 0 =>
          /\ wb[1] = RMul(camMul[1], ShiftFactor(kelvinSlider))
          /\ wb[3] = RDiv(camMul[3], ShiftFactor(kelvinSlider))
    /\ kelvinSlider < 0 =>
          /\ wb[1] = RDiv(camMul[1], ShiftFactor(kelvinSlider))
          /\ wb[3] = RMul(camMul[3], ShiftFactor(kelvinSlider))

\* the slider moved to -1000: red divided, blue multiplied by 1.1
C14_Witness ==
    /\ lastEv.op = "valueChanged"
    /\ kelvinSlider = -1000
    /\ wb = << Rat(10, 11), One, Rat(11, 10) >>

C19_FailedLoadKeepsState ==
    [][ (nEvents' # nEvents /\ lastEv'.op = "loadRaw" /\ loadOutcome' \in Failures)
        => UNCHANGED << imgData, m_tex, texCreated, texLive, texDeletes, texel,
                        zoom, crop, aspectScale, exposure, wb, contrast >> ]_vars

\* a failed load after a successful one: the image loaded first is still there
C19_Witness ==
    /\ lastEv.op = "loadRaw"
    /\ loadOutcome \in Failures
    /\ m_tex = 1
    /\ texCreated = 1
    /\ imgData.width # 0

\* C20: a failure inside loadRaw ends in an error message and never leaves
\* the handler or main, whichever way the load was started.
C20_FailureSurfaced ==
    loadOutcome \in Failures => (messageShown /\ ~escaped)

\* C29: the widget's exposure and contrast are the values of the exposure and
\* the contrast slider and its wb is the multipliers derived from the value of
\* the temperature slider, at start and after every slider change and load;
\* a slider change leaves the image copy, the texture and the view as they
\* were.
C29_AdjustmentsInStep ==
    /\ exposure = exposureSlider /\ contrast = contrastSlider
    /\ wb = RelativeWB(camMul, kelvinSlider)
    /\ [][ /\ exposure' = exposureSlider' /\ contrast' = contrastSlider'
           /\ wb' = RelativeWB(camMul', kelvinSlider')
           /\ (nEvents' # nEvents /\ lastEv'.op = "valueChanged")
                 => UNCHANGED << imgData, m_tex, texCreated, texLive, texDeletes, texel,
                                 zoom, crop, aspectScale, width, height >> ]_vars

\* the contrast slider was moved to 3, and a load after it set the exposure
\* slider to the file's compensation of one stop
C29_Witness ==
    /\ lastEv.op = "loadRaw"
    /\ loadOutcome = "ok"
    /\ nEvents >= 2
    /\ exposure = 1
    /\ contrast = F(3)
    /\ wb = << One, One, One >>

\* ------------------------------------------------------------------------
\* The decoder's image into a HalfImage, and the colour operations on it
\* ------------------------------------------------------------------------
\* decoder images: a null pointer, or a libraw_processed_image_t
MemImages ==
    { NoMemimg } \cup
    [ null : {FALSE}, dataNull : BOOLEAN,
      type : {"LIBRAW_IMAGE_BITMAP", "LIBRAW_IMAGE_JPEG"},
      bits : {8, 16}, colors : {1, 3}, width : {0, 2}, height : {0, 1} ]

\* the 16-bit sample src[i] of the decoder's buffer
SrcAt(i) == IF i % 3 = 1 THEN 65535 ELSE IF i % 3 = 2 THEN 13107 ELSE 0

\* HalfImage out(width, height) filled with half(src[i] * inv), inv = 1/0xFFFF
Normalized(m) ==
    [width |-> m.width, height |-> m.height,
     data |-> [i \in 1..(m.width * m.height * 3) |-> Rat(SrcAt(i), 65535)],
     space |-> "XYZ"]

\* a converter that takes whatever bit depth and channel count it is given
ConvertLibRaw16ToHalf_AnyFormat(m) ==
    IF m.null \/ m.dataNull
    THEN [threw |-> "Null image or data in convertLibRaw16ToHalf", image |-> NoImage]
    ELSE [threw |-> "", image |-> Normalized(m)]

\* convertLibRaw16ToHalf: the exception it throws or the image it returns
ConvertLibRaw16ToHalf(m) ==
    IF m.null \/ m.dataNull
    THEN [threw |-> "Null image or data in convertLibRaw16ToHalf", image |-> NoImage]
    ELSE IF m.type # "LIBRAW_IMAGE_BITMAP" \/ m.bits # 16 \/ m.colors # 3
    THEN [threw |-> "Unsupported image format in convertLibRaw16ToHalf",
          image |-> NoImage]
    ELSE [threw |-> "", image |-> Normalized(m)]

\* the colour operations that take a HalfImage, and the space each leaves it in
EngineOps == { "xyzToACEScg", "cameraToACEScg", "acesCgToDisplay" }

SpaceAfter(op) == IF op = "acesCgToDisplay" THEN "sRGB" ELSE "ACEScg"

\* how a colour operation can end on img.  None of them tests the image: with
\* zero rows the loops do nothing and the function returns; xyzToACEScg forms
\* img.pixel(0, y) for every row before it looks at the width, which on an
\* empty buffer is an access outside the vector (undefined: it returns or the
\* process dies); the others touch a pixel only inside the inner loop
EngineOutcomes(op, img) ==
    IF img.height = 0 THEN { "returned" }
    ELSE IF op = "xyzToACEScg" /\ Len(img.data) = 0 THEN { "returned", "crashed" }
    ELSE IF img.width = 0 THEN { "returned" }
    ELSE IF Len(img.data) = 0 THEN { "returned", "crashed" }
    ELSE { "returned" }

ConvertInit ==
    /\ WidgetInit
    /\ ColorIdle
    /\ AdjustInit
    /\ DisplayIdle
    /\ AppIdle
    /\ ComponentIdle

\* loadRaw's "HalfImage img = convertLibRaw16ToHalf(result.image)"
Convert ==
    /\ \E m \in MemImages :
          /\ memimg' = m
          /\ halfImage' = ConvertLibRaw16ToHalf(m).image
          /\ convertThrew' = ConvertLibRaw16ToHalf(m).threw
    /\ engineOp' = ""
    /\ engineOutcome' = ""
    /\ UNCHANGED << widgetVars, colorVars, adjustVars, displayVars, appVars, sliderVars, panVars,
                    inverseVars, loopVars >>

\* a colour operation on the image the conversion returned
RunEngineOp ==
    /\ convertThrew = ""
    /\ ~memimg.null
    /\ engineOutcome # "crashed"
    /\ \E op \in EngineOps : \E outcome \in EngineOutcomes(op, halfImage) :
          /\ engineOp' = op
          /\ engineOutcome' = outcome
          /\ halfImage' = IF outcome = "returned"
                          THEN [halfImage EXCEPT !.space = SpaceAfter(op)]
                          ELSE halfImage
    /\ UNCHANGED << memimg, convertThrew, widgetVars, colorVars, adjustVars,
                    displayVars, appVars, sliderVars, panVars,
                    inverseVars, loopVars >>

ConvertNext ==
    \/ Convert
    \/ RunEngineOp

ConvertSpec == ConvertInit /\ [][ConvertNext]_vars

\* the decoder image is a 16-bit RGB bitmap with its data
WellFormed(m) ==
    /\ ~m.null
    /\ ~m.dataNull
    /\ m.type = "LIBRAW_IMAGE_BITMAP"
    /\ m.bits = 16
    /\ m.colors = 3

\* C21: convertLibRaw16ToHalf returns an image only for a non-null 16-bit
\* 3-channel bitmap with data; for anything else it throws and there is no
\* image.
C21_FormatRejected ==
    /\ (convertThrew = "" /\ memimg # NoMemimg) => WellFormed(memimg)
    /\ ~WellFormed(memimg) => halfImage = NoImage
    /\ (memimg # NoMemimg /\ ~WellFormed(memimg)) => convertThrew # ""
    /\ (WellFormed(memimg) /\ engineOp = "") =>
          /\ convertThrew = ""
          /\ halfImage.width = memimg.width
          /\ halfImage.height = memimg.height
          /\ Len(halfImage.data) = memimg.width * memimg.height * 3

\* an 8-bit bitmap was rejected
C21_Witness ==
    /\ ~memimg.null
    /\ ~memimg.dataNull
    /\ memimg.type = "LIBRAW_IMAGE_BITMAP"
    /\ memimg.bits = 8
    /\ memimg.colors = 3
    /\ convertThrew = "Unsupported image format in convertLibRaw16ToHalf"
    /\ halfImage = NoImage

\* zero width or height, or an empty buffer
Malformed(img) == img.width = 0 \/ img.height = 0 \/ Len(img.data) = 0

\* C22: a colour operation given a malformed image fails with an error, it
\* does not return normally.
C22_MalformedFailsFast ==
    (engineOp # "" /\ Malformed(halfImage)) => engineOutcome = "threw"

\* ------------------------------------------------------------------------
\* PrecisionSlider: a float value in [m_minimum, m_maximum] behind a QSlider
\* and a QLineEdit
\* ------------------------------------------------------------------------
MaxSliderEvents == 3

SLIDER_PRECISION == 10000

\* m_singleStep(0.1f)
SingleStep == U(1, 10)

\* m_slider->width(), in pixels
SliderWidth == 100

\* the 1e-6 of setValue and onSliderValueChanged
Epsilon == 2

\* ranges handed to setRange: the main window's -5 .. 5 and 0.1 .. 3.0, and
\* one with minimum = maximum
Ranges == { << U(-5, 1), U(5, 1) >>, << U(1, 10), U(3, 1) >>, << 0, 0 >> }

\* values handed to setValue and setDefaultValue: -7.5, 1.0, 5.0000005, 7.5
SliderValues == { U(-15, 2), U(1, 1), U(5, 1) + 1, U(15, 2) }

\* what the user can leave in the text field: "abc", "1", "5.0000005", "7.5"
Texts == { [ok |-> FALSE, value |-> 0], [ok |-> TRUE, value |-> U(1, 1)],
           [ok |-> TRUE, value |-> U(5, 1) + 1], [ok |-> TRUE, value |-> U(15, 2)] }

\* x of the mouse over the slider, in pixels
MouseXs == { 0, 40 }

\* values the QSlider can be moved to by its own handling (keys)
SliderSteps == { 0, 2500, 10000 }

QMin(a, b) == IF a < b THEN a ELSE b

QMax(a, b) == IF a < b THEN b ELSE a

\* qBound(min, val, max)
QBound(min, val, max) == QMax(min, QMin(max, val))

\* floatToSlider, then QSlider::setValue (which bounds it to 0 .. SLIDER_PRECISION):
\* int((value - min) / (max - min) * SLIDER_PRECISION + 0.5); the ranges used
\* are multiples of SLIDER_PRECISION steps, so the quotient is taken first.
\* With min = max the ratio is 0/0 or x/0 and its conversion to int is
\* undefined: the QSlider ends somewhere in its range
FloatToSlider(value, min, max) ==
    IF max = min
    THEN { 0, SLIDER_PRECISION \div 2, SLIDER_PRECISION }
    ELSE LET q == (max - min) \div SLIDER_PRECISION
         IN  { QBound(0, ((value - min) + q \div 2) \div q, SLIDER_PRECISION) }

\* sliderToFloat: min + (sliderValue / SLIDER_PRECISION) * (max - min)
SliderToFloat(sliderValue, min, max) ==
    min + sliderValue * ((max - min) \div SLIDER_PRECISION)

\* emitValueChanged: emit valueChanged(m_currentValue)
EmitValueChanged(value) ==
    /\ emitted' = emitted + 1
    /\ signalled' = value

\* an onLineEditChanged that takes every number
Accepted_AnyNumber(text, min, max) == text.ok

\* onLineEditChanged: ok && value >= m_minimum && value <= m_maximum
Accepted(text, min, max) == text.ok /\ text.value >= min /\ text.value <= max

\* the body of setValue(value) with the range min .. max in force
SetValueIn(value, min, max) ==
    LET clampedValue == QBound(min, value, max)
    IN  IF Abs(clampedValue - m_currentValue) > Epsilon
        THEN /\ m_currentValue' = clampedValue
             /\ m_slider' \in FloatToSlider(clampedValue, min, max)
             /\ m_lineEdit' = Number(clampedValue)
             /\ EmitValueChanged(clampedValue)
        ELSE UNCHANGED << m_currentValue, m_slider, m_lineEdit, emitted, signalled >>

\* one call or event of the slider: counted, named, the state before it kept
SliderHandled(op) ==
    /\ nSlider < MaxSliderEvents
    /\ nSlider' = nSlider + 1
    /\ sliderOp' = op
    /\ sliderPre' = [text |-> m_lineEdit, value |-> m_currentValue, emitted |-> emitted]
    /\ UNCHANGED << widgetVars, colorVars, adjustVars, displayVars, appVars, convertVars,
                    panVars, inverseVars, loopVars >>

\* PrecisionSlider::setRange(minimum, maximum)
SetRange ==
    /\ SliderHandled("setRange")
    /\ \E r \in Ranges :
          /\ m_minimum' = r[1]
          /\ m_maximum' = r[2]
          /\ IF QBound(r[1], m_currentValue, r[2]) # m_currentValue
             THEN SetValueIn(QBound(r[1], m_currentValue, r[2]), r[1], r[2])
             ELSE /\ m_slider' \in FloatToSlider(m_currentValue, r[1], r[2])
                  /\ UNCHANGED << m_currentValue, m_lineEdit, emitted, signalled >>
    /\ UNCHANGED << m_defaultValue, m_dragging, m_ctrlPressed, m_lastMousePos,
                    m_dragStartValue >>

\* PrecisionSlider::setDefaultValue(defaultVal)
SetDefaultValue ==
    /\ SliderHandled("setDefaultValue")
    /\ \E d \in SliderValues : m_defaultValue' = QBound(m_minimum, d, m_maximum)
    /\ UNCHANGED << m_minimum, m_maximum, m_currentValue, m_dragging, m_ctrlPressed,
                    m_lastMousePos, m_dragStartValue, m_slider, m_lineEdit, emitted,
                    signalled >>

\* PrecisionSlider::setValue(value), as loadRaw calls it with the file's
\* exposure compensation
SetValue ==
    /\ SliderHandled("setValue")
    /\ \E v \in SliderValues : SetValueIn(v, m_minimum, m_maximum)
    /\ UNCHANGED << m_minimum, m_maximum, m_defaultValue, m_dragging, m_ctrlPressed,
                    m_lastMousePos, m_dragStartValue >>

\* eventFilter, MouseButtonDblClick with the left button: resetToDefault()
ResetToDefault ==
    /\ SliderHandled("resetToDefault")
    /\ SetValueIn(m_defaultValue, m_minimum, m_maximum)
    /\ UNCHANGED << m_minimum, m_maximum, m_defaultValue, m_dragging, m_ctrlPressed,
                    m_lastMousePos, m_dragStartValue >>

\* PrecisionSlider::wheelEvent: one notch up or down, a tenth of it with Ctrl
SliderWheelEvent ==
    /\ SliderHandled("wheelEvent")
    /\ \E delta \in { -1, 1 }, ctrl \in BOOLEAN :
          LET step == IF ctrl THEN SingleStep \div 10 ELSE SingleStep
          IN  SetValueIn(m_currentValue + delta * step, m_minimum, m_maximum)
    /\ UNCHANGED << m_minimum, m_maximum, m_defaultValue, m_dragging, m_ctrlPressed,
                    m_lastMousePos, m_dragStartValue >>

\* eventFilter, MouseButtonPress with the left button
FilterPress ==
    /\ SliderHandled("press")
    /\ \E x \in MouseXs, ctrl \in BOOLEAN :
          /\ m_ctrlPressed' = ctrl
          /\ m_lastMousePos' = x
    /\ m_dragging' = TRUE
    /\ m_dragStartValue' = m_currentValue
    /\ UNCHANGED << m_minimum, m_maximum, m_defaultValue, m_currentValue, m_slider,
                    m_lineEdit, emitted, signalled >>

\* eventFilter, MouseMove while dragging: the value follows the distance from
\* the press, a quarter of it with Ctrl
FilterMove ==
    /\ m_dragging
    /\ SliderHandled("move")
    /\ \E x \in MouseXs :
          LET deltaX == x - m_lastMousePos
              full == deltaX * ((m_maximum - m_minimum) \div SliderWidth)
              valueChange == IF m_ctrlPressed THEN full \div 4 ELSE full
          IN  SetValueIn(m_dragStartValue + valueChange, m_minimum, m_maximum)
    /\ UNCHANGED << m_minimum, m_maximum, m_defaultValue, m_dragging, m_ctrlPressed,
                    m_lastMousePos, m_dragStartValue >>

\* eventFilter, MouseButtonRelease with the left button while dragging
FilterRelease ==
    /\ m_dragging
    /\ SliderHandled("release")
    /\ m_dragging' = FALSE
    /\ UNCHANGED << m_minimum, m_maximum, m_defaultValue, m_currentValue, m_ctrlPressed,
                    m_lastMousePos, m_dragStartValue, m_slider, m_lineEdit, emitted,
                    signalled >>

\* the QSlider changed its value itself: onSliderValueChanged(value)
OnSliderValueChanged ==
    /\ SliderHandled("onSliderValueChanged")
    /\ \E value \in SliderSteps :
          /\ value # m_slider
          /\ m_slider' = value
          /\ LET floatValue == SliderToFloat(value, m_minimum, m_maximum)
             IN  IF ~m_dragging /\ Abs(floatValue - m_currentValue) > Epsilon
                 THEN /\ m_currentValue' = floatValue
                      /\ m_lineEdit' = Number(floatValue)
                      /\ EmitValueChanged(floatValue)
                 ELSE UNCHANGED << m_currentValue, m_lineEdit, emitted, signalled >>
    /\ UNCHANGED << m_minimum, m_maximum, m_defaultValue, m_dragging, m_ctrlPressed,
                    m_lastMousePos, m_dragStartValue >>

\* the user changed the text: onLineEditChanged()
OnLineEditChanged ==
    /\ SliderHandled("onLineEditChanged")
    /\ \E text \in Texts :
          /\ text # m_lineEdit
          /\ m_lineEdit' = text
          /\ IF Accepted(text, m_minimum, m_maximum)
             THEN /\ m_currentValue' = text.value
                  /\ m_slider' \in FloatToSlider(text.value, m_minimum, m_maximum)
                  /\ EmitValueChanged(text.value)
             ELSE UNCHANGED << m_currentValue, m_slider, emitted, signalled >>
    /\ UNCHANGED << m_minimum, m_maximum, m_defaultValue, m_dragging, m_ctrlPressed,
                    m_lastMousePos, m_dragStartValue >>

\* Return or loss of focus in the text field: onLineEditFinished()
OnLineEditFinished ==
    /\ SliderHandled("onLineEditFinished")
    /\ IF m_lineEdit.ok
       THEN SetValueIn(m_lineEdit.value, m_minimum, m_maximum)
       ELSE /\ m_lineEdit' = Number(m_currentValue)
            /\ UNCHANGED << m_currentValue, m_slider, emitted, signalled >>
    /\ UNCHANGED << m_minimum, m_maximum, m_defaultValue, m_dragging, m_ctrlPressed,
                    m_lastMousePos, m_dragStartValue >>

SliderNext ==
    \/ SetRange
    \/ SetDefaultValue
    \/ SetValue
    \/ ResetToDefault
    \/ SliderWheelEvent
    \/ FilterPress
    \/ FilterMove
    \/ FilterRelease
    \/ OnSliderValueChanged
    \/ OnLineEditChanged
    \/ OnLineEditFinished

SliderSpec == Init /\ [][SliderNext]_vars

C23_WitnessReverted ==
    /\ sliderOp = "onLineEditFinished"
    /\ ~sliderPre.text.ok
    /\ m_lineEdit = Number(m_currentValue)

\* every change of the slider's value is signalled: a listener connected at
\* construction has the current value
ValueSignalled == signalled = m_currentValue

\* C30: with minimum <= maximum, the slider's value lies in minimum .. maximum
\* after every call and event.
C30_ValueInRange ==
    m_minimum <= m_maximum
        => (m_minimum <= m_currentValue /\ m_currentValue <= m_maximum)

\* the value is never further than the 1e-6 of setValue outside the range
C30_WithinEpsilon ==
    /\ m_minimum <= m_maximum
    /\ m_minimum - Epsilon <= m_currentValue
    /\ m_currentValue <= m_maximum + Epsilon

\* an exposure compensation of 7.5 stops was set and stored as 5
C30_Clamped ==
    /\ sliderOp = "setValue"
    /\ m_maximum = U(5, 1)
    /\ sliderPre.value # U(5, 1)
    /\ m_currentValue = U(5, 1)

\* ------------------------------------------------------------------------
\* The row loops of xyzToACEScg, cameraToACEScg and acesCgToDisplay under
\* "#pragma omp parallel for": threads take rows in any order and run the
\* loop body on them, a load and a store at a time
\* ------------------------------------------------------------------------
LoopRows == 3

LoopThreads == 2

Rows == 1..LoopRows

Threads == 1..LoopThreads

\* images of one pixel per row
RowImages == { [y \in Rows |-> << y, 1, 0 >>], [y \in Rows |-> << 1, -1, y >>] }

\* cameraToACEScg's float cam2xyz[3][3], copied from the file's cam_xyz
Cam2xyz == << << 0, 1, 0 >>, << 1, 0, 0 >>, << 0, 0, 1 >> >>

\* a thread outside the loop body
IdleThread == [pc |-> "idle", row |-> 0, src |-> 0, rgb |-> << 0, 0, 0 >>,
               M |-> ZeroMatrix]

\* what the loop body of op computes from the r, g, b it loaded; M is the
\* XYZ_to_ACEScg it read
LoopBody(op, rgb, M) ==
    CASE op = "xyzToACEScg" -> ApplyMatrix3x3(M, rgb)
      [] op = "cameraToACEScg" ->
            ApplyMatrix3x3(AP0_to_AP1,
                ApplyMatrix3x3(XYZ_to_AP0, ApplyMatrix3x3(Cam2xyz, rgb)))
      [] OTHER -> [base |-> rgb, applied |-> CpuLoopBody]

\* a loop body that loads the pixel of the row above
Source_RowAbove(y) == IF y = 1 THEN 1 ELSE y - 1

\* the row whose pixel the iteration of row y loads: img.pixel(x, y)
Source(y) == y

\* the position of the caller before row i of multiplyMatrix3x3
MatrixPc(i) == << "entry", "row2", "row3" >>[i]

\* a colour operation is called on an image
CallOperation ==
    /\ loopPc = "joined"
    /\ \E op \in EngineOps, image \in RowImages :
          /\ loopOp' = op
          /\ orig' = image
          /\ buf' = image
    /\ loopPc' = "entry"
    /\ unclaimed' = Rows
    /\ workers' = [t \in Threads |-> IdleThread]
    /\ stores' = [y \in Rows |-> 0]
    /\ UNCHANGED << widgetVars, colorVars, adjustVars, displayVars, appVars,
                    convertVars, sliderVars, panVars, inverseVars >>

\* xyzToACEScg, if (!matrix_computed): multiplyMatrix3x3 fills XYZ_to_ACEScg
\* row after row, then matrix_computed = true
ComputeMatrix ==
    /\ loopOp = "xyzToACEScg"
    /\ ~matrix_computed
    /\ \E i \in 1..3 :
          /\ loopPc = MatrixPc(i)
          /\ XYZ_to_ACEScg' =
                [XYZ_to_ACEScg EXCEPT ![i] = MultiplyMatrix3x3(AP0_to_AP1, XYZ_to_AP0)[i]]
          /\ matrix_computed' = (i = 3)
          /\ loopPc' = IF i = 3 THEN "parallel" ELSE MatrixPc(i + 1)
    /\ UNCHANGED << xyz, ap0, ap1, chained, acescg, converted, loopOp, orig, buf,
                    unclaimed, workers, stores, widgetVars, adjustVars, displayVars,
                    appVars, convertVars, sliderVars, panVars, inverseVars >>

\* the caller reaches the parallel loop with nothing left to compute
EnterLoop ==
    /\ loopPc = "entry"
    /\ loopOp # "xyzToACEScg" \/ matrix_computed
    /\ loopPc' = "parallel"
    /\ UNCHANGED << loopOp, orig, buf, unclaimed, workers, stores, widgetVars,
                    colorVars, adjustVars, displayVars, appVars, convertVars,
                    sliderVars, panVars, inverseVars >>

\* a thread is given a row no thread has had (schedule(static) and
\* schedule(dynamic, 16) are two ways of handing the rows out)
TakeRow ==
    /\ loopPc = "parallel"
    /\ \E t \in Threads : \E y \in unclaimed :
          /\ workers[t].pc = "idle"
          /\ workers' = [workers EXCEPT ![t] = [IdleThread EXCEPT !.pc = "load", !.row = y]]
          /\ unclaimed' = unclaimed \ {y}
    /\ UNCHANGED << loopOp, loopPc, orig, buf, stores, widgetVars, colorVars,
                    adjustVars, displayVars, appVars, convertVars, sliderVars, panVars,
                    inverseVars >>

\* float r = float(p[0]), g = float(p[1]), b = float(p[2]), and the matrix
\* as the thread reads it
LoadPixel ==
    /\ loopPc = "parallel"
    /\ \E t \in Threads :
          /\ workers[t].pc = "load"
          /\ workers' = [workers EXCEPT ![t] =
                            [pc |-> "store", row |-> workers[t].row,
                             src |-> Source(workers[t].row),
                             rgb |-> buf[Source(workers[t].row)],
                             M |-> XYZ_to_ACEScg]]
    /\ UNCHANGED << loopOp, loopPc, orig, buf, unclaimed, stores, widgetVars,
                    colorVars, adjustVars, displayVars, appVars, convertVars,
                    sliderVars, panVars, inverseVars >>

\* p[0] = half(rr); p[1] = half(gg); p[2] = half(bb)
StorePixel ==
    /\ loopPc = "parallel"
    /\ \E t \in Threads :
          /\ workers[t].pc = "store"
          /\ buf' = [buf EXCEPT ![workers[t].row] =
                        LoopBody(loopOp, workers[t].rgb, workers[t].M)]
          /\ stores' = [stores EXCEPT ![workers[t].row] = @ + 1]
          /\ workers' = [workers EXCEPT ![t] = IdleThread]
    /\ UNCHANGED << loopOp, loopPc, orig, unclaimed, widgetVars, colorVars,
                    adjustVars, displayVars, appVars, convertVars, sliderVars, panVars,
                    inverseVars >>

\* the end of the parallel loop: every row done, every thread back
Join ==
    /\ loopPc = "parallel"
    /\ unclaimed = {}
    /\ \A t \in Threads : workers[t].pc = "idle"
    /\ loopPc' = "joined"
    /\ UNCHANGED << loopOp, orig, buf, unclaimed, workers, stores, widgetVars,
                    colorVars, adjustVars, displayVars, appVars, convertVars,
                    sliderVars, panVars, inverseVars >>

LoopNext ==
    \/ CallOperation
    \/ ComputeMatrix
    \/ EnterLoop
    \/ TakeRow
    \/ LoadPixel
    \/ StorePixel
    \/ Join

LoopSpec == Init /\ [][LoopNext]_vars

\* the buffer a loop that takes the rows one after the other leaves
SequentialResult ==
    [y \in Rows |-> LoopBody(loopOp, orig[y], MultiplyMatrix3x3(AP0_to_AP1, XYZ_to_AP0))]

\* C25: in the row loops every pixel is stored once, by the iteration of its
\* row, which loaded that pixel only; whatever the order and interleaving of
\* the threads, the buffer after the loop is the buffer of the sequential
\* loop; and no thread is in the loop of xyzToACEScg before XYZ_to_ACEScg is
\* complete.
C25_RowLoopsIndependent ==
    /\ \A y \in DOMAIN stores : stores[y] <= 1
    /\ (loopOp # "" /\ loopPc = "joined")
          => (buf = SequentialResult /\ \A y \in Rows : stores[y] = 1)
    /\ \A t \in DOMAIN workers :
          /\ workers[t].pc = "store" => workers[t].src = workers[t].row
          /\ (workers[t].pc # "idle" /\ loopOp = "xyzToACEScg")
                => /\ matrix_computed
                   /\ XYZ_to_ACEScg = MultiplyMatrix3x3(AP0_to_AP1, XYZ_to_AP0)

\* two threads are inside the body of xyzToACEScg at once, the first on a
\* later row than the second, with a row already stored
C25_Witness ==
    /\ loopOp = "xyzToACEScg"
    /\ loopPc = "parallel"
    /\ workers[1].pc = "store"
    /\ workers[2].pc = "load"
    /\ workers[1].row > workers[2].row
    /\ \E y \in Rows : stores[y] = 1

====
